---- MODULE Spec2Model ----
(***************************************************************************)
(* LocalTabletsChannel (be/src/runtime/local_tablets_channel.cpp): the     *)
(* tablet write channel of one (load, index) pair.  The channel owns one   *)
(* AsyncDeltaWriter per tablet and one Sender slot per upstream sender;    *)
(* add_chunk deduplicates retried packets with a per-sender sliding        *)
(* window, scatters the rows of a chunk over the tablets, dispatches one   *)
(* asynchronous write per tablet, and commits or aborts every writer when  *)
(* the last sender delivers eos.                                           *)
(*                                                                         *)
(* Every add_chunk invocation is a process (a bthread) identified by a     *)
(* call id; pc[c] is the place of the call in add_chunk.                   *)
(***************************************************************************)
EXTENDS Integers, Sequences, FiniteSets, TLC

\* Number of add_chunk invocations a behaviour may start.
MaxCalls == 4
\* Number of them a behaviour of Spec starts.
CloseCalls == 2
\* Largest num_senders of an open request.
MaxSenders == 2
\* _max_sliding_window_size, scaled down.
WindowSize == 3
\* Number of add_chunk invocations a behaviour of SpecBatch starts.
BatchCalls == 2
\* Largest number of rows of an enumerated chunk.
MaxRows == 3
\* Number of add_segment and cancel calls a behaviour may make.
MaxControl == 3
\* Largest packet_seq a request carries: two past the initial window.
MaxSeq == WindowSize + 1

NoCall == 0
Calls == 1..MaxCalls

Min(S) == CHOOSE x \in S : \A y \in S : x <= y

EmptyMap == [x \in {} |-> 0]

\* One more entry in a map (std::map::emplace: an existing key is kept).
Emplace(m, k, v) == IF k \in DOMAIN m THEN m
                    ELSE [x \in DOMAIN m \cup {k} |-> IF x = k THEN v ELSE m[x]]

(***************************************************************************)
(* open                                                                    *)
(***************************************************************************)

\* The tablet ids left in request order.
SortIds_Unsorted(s) == s

\* std::sort of the tablet ids (insertion of the head into the sorted tail).
RECURSIVE InsertSorted(_, _)
InsertSorted(x, s) ==
    IF s = <<>> THEN <<x>>
    ELSE IF x <= Head(s) THEN <<x>> \o s
    ELSE <<Head(s)>> \o InsertSorted(x, Tail(s))

RECURSIVE SortIds(_)
SortIds(s) == IF s = <<>> THEN <<>> ELSE InsertSorted(Head(s), SortIds(Tail(s)))

\* for (i = 0; i < tablet_ids.size(); ++i) _tablet_id_to_sorted_indexes.emplace(tablet_ids[i], i)
RECURSIVE EmplaceIndexes(_, _, _)
EmplaceIndexes(m, sorted, i) ==
    IF i > Len(sorted) THEN m
    ELSE EmplaceIndexes(Emplace(m, sorted[i], i - 1), sorted, i + 1)

SortedIndexes(ids) == EmplaceIndexes(EmptyMap, SortIds(ids), 1)

\* _delta_writers after the writers of tablets[1..k] were opened.
RECURSIVE OpenWriters(_, _)
OpenWriters(tablets, k) ==
    IF k = 0 THEN EmptyMap
    ELSE Emplace(OpenWriters(tablets, k - 1), tablets[k].tablet_id,
                 [partition_id |-> tablets[k].partition_id,
                  replica_state |-> tablets[k].replica_state])

TabletIdsOf(tablets) == [i \in 1..Len(tablets) |-> tablets[i].tablet_id]

(***************************************************************************)
(* add_chunk: the pure parts                                               *)
(***************************************************************************)

\* The validation without the test of the sequence number.
ValidateRequest_NoSeqTest(r, num_slots) ==
    IF ~r.has_sender_id THEN "INVALID_ARGUMENT"
    ELSE IF r.sender_id < 0 THEN "INVALID_ARGUMENT"
    ELSE IF r.sender_id >= num_slots THEN "INVALID_ARGUMENT"
    ELSE "OK"

\* Lines 99-120: the shape of the request.
ValidateRequest(r, num_slots) ==
    IF ~r.has_sender_id THEN "INVALID_ARGUMENT"
    ELSE IF r.sender_id < 0 THEN "INVALID_ARGUMENT"
    ELSE IF r.sender_id >= num_slots THEN "INVALID_ARGUMENT"
    ELSE IF ~r.has_packet_seq THEN "INVALID_ARGUMENT"
    ELSE "OK"

\* Every request is looked up in the slot of sender 0.
SlotOf_Zero(r) == 0

\* Lines 123, 126-157, 290-300: the sender slot add_chunk locks, reads and
\* writes is _senders[request.sender_id()].
SlotOf(r) == r.sender_id

\* The window that does not look at eos: a packet that is in both windows is
\* always taken as completed.
DedupBranch_NoEosTest(s, seq, eos) ==
    IF seq \in s.receive_sliding_window
    THEN IF seq \notin s.success_sliding_window
         THEN "already_process"
         ELSE "already_success"
    ELSE IF seq <= s.last_sliding_packet_seq THEN "before_window"
         ELSE IF seq > s.last_sliding_packet_seq + WindowSize THEN "too_far"
         ELSE "admitted"

\* The window without the test against last_sliding_packet_seq: a packet
\* behind the window is admitted again.
DedupBranch_NoBeforeTest(s, seq, eos) ==
    IF seq \in s.receive_sliding_window
    THEN IF seq \notin s.success_sliding_window \/ eos
         THEN "already_process"
         ELSE "already_success"
    ELSE IF seq > s.last_sliding_packet_seq + WindowSize THEN "too_far"
         ELSE "admitted"

\* The window admitting one sequence number more than its size.
DedupBranch_WindowPlusOne(s, seq, eos) ==
    IF seq \in s.receive_sliding_window
    THEN IF seq \notin s.success_sliding_window \/ eos
         THEN "already_process"
         ELSE "already_success"
    ELSE IF seq <= s.last_sliding_packet_seq THEN "before_window"
         ELSE IF seq > s.last_sliding_packet_seq + WindowSize + 1 THEN "too_far"
         ELSE "admitted"

\* The window taking every packet of the receive window as completed unless
\* the request has eos.
DedupBranch_NoProcessTest(s, seq, eos) ==
    IF seq \in s.receive_sliding_window
    THEN IF eos THEN "already_process" ELSE "already_success"
    ELSE IF seq <= s.last_sliding_packet_seq THEN "before_window"
         ELSE IF seq > s.last_sliding_packet_seq + WindowSize THEN "too_far"
         ELSE "admitted"

\* The window without the test of the success window: a packet that is in the
\* receive window is always taken as still in process.
DedupBranch_NoSuccessTest(s, seq, eos) ==
    IF seq \in s.receive_sliding_window THEN "already_process"
    ELSE IF seq <= s.last_sliding_packet_seq THEN "before_window"
         ELSE IF seq > s.last_sliding_packet_seq + WindowSize THEN "too_far"
         ELSE "admitted"

\* Lines 126-158: the branch the sliding window of the sender slot s takes on
\* (packet_seq, eos); "admitted" is the branch that inserts into the window.
DedupBranch(s, seq, eos) ==
    IF seq \in s.receive_sliding_window
    THEN IF seq \notin s.success_sliding_window \/ eos
         THEN "already_process"
         ELSE "already_success"
    ELSE IF seq <= s.last_sliding_packet_seq THEN "before_window"
         ELSE IF seq > s.last_sliding_packet_seq + WindowSize THEN "too_far"
         ELSE "admitted"

\* Lines 130, 138, 147, 151: the status code a returning branch answers.
BranchStatus(branch) ==
    IF branch = "already_process" THEN "DUPLICATE_RPC_INVOCATION"
    ELSE IF branch = "too_far" THEN "INVALID_ARGUMENT"
    ELSE "OK"

\* The admitted packet is not recorded.
ReceiveInsert_Lost(s, seq) == s

\* Line 157.
ReceiveInsert(s, seq) ==
    [s EXCEPT !.receive_sliding_window = @ \cup {seq}]

\* Line 292.
SuccessInsert(s, seq) ==
    [s EXCEPT !.success_sliding_window = @ \cup {seq}]

\* The loop goes on only while the success window exceeds the whole window.
PruneWanted_Whole(s) == Cardinality(s.success_sliding_window) > WindowSize

\* Line 293: the loop condition of the pruning loop.
PruneWanted(s) == Cardinality(s.success_sliding_window) > WindowSize \div 2

\* The erasing iteration without the test against last_sliding_packet_seq.
PruneCan_NoLastTest(s) ==
    /\ s.success_sliding_window # {}
    /\ s.receive_sliding_window # {}
    /\ Min(s.success_sliding_window) = Min(s.receive_sliding_window)

\* Lines 294-297: the condition under which one iteration erases.  cbegin()
\* of an ordered set is its least element; the loop condition makes the
\* success window non-empty, and the receive window holds every packet of the
\* success window.
PruneCan(s) ==
    /\ s.success_sliding_window # {}
    /\ s.receive_sliding_window # {}
    /\ s.last_sliding_packet_seq + 1 = Min(s.success_sliding_window)
    /\ Min(s.success_sliding_window) = Min(s.receive_sliding_window)

\* An erasing iteration that leaves the success window as it is.
PruneOne_KeepSuccess(s) ==
    [receive_sliding_window |->
         s.receive_sliding_window \ {Min(s.receive_sliding_window)},
     success_sliding_window |-> s.success_sliding_window,
     last_sliding_packet_seq |-> s.last_sliding_packet_seq + 1]

\* An erasing iteration that leaves the receive window as it is.
PruneOne_KeepReceive(s) ==
    [receive_sliding_window |-> s.receive_sliding_window,
     success_sliding_window |->
         s.success_sliding_window \ {Min(s.success_sliding_window)},
     last_sliding_packet_seq |-> s.last_sliding_packet_seq + 1]

\* Lines 298-300: one erasing iteration.
PruneOne(s) ==
    [receive_sliding_window |->
         s.receive_sliding_window \ {Min(s.receive_sliding_window)},
     success_sliding_window |->
         s.success_sliding_window \ {Min(s.success_sliding_window)},
     last_sliding_packet_seq |-> s.last_sliding_packet_seq + 1]

\* Lines 460-463: the counting pass over rows i..n.  operator[] of the index
\* map inserts a missing tablet id with ordinal 0.
RECURSIVE CountRows(_, _, _, _)
CountRows(map, points, tablet_ids, i) ==
    IF i > Len(tablet_ids) THEN [map |-> map, points |-> points]
    ELSE LET m2 == Emplace(map, tablet_ids[i], 0)
             ci == m2[tablet_ids[i]]
         IN CountRows(m2, [points EXCEPT ![ci] = @ + 1], tablet_ids, i + 1)

\* The running sum that stops one entry early.
RECURSIVE PrefixSum_StopsEarly(_, _, _)
PrefixSum_StopsEarly(points, i, channel_size) ==
    IF i >= channel_size THEN points
    ELSE PrefixSum_StopsEarly([points EXCEPT ![i] = @ + points[i - 1]], i + 1,
                              channel_size)

\* Lines 466-468: the running sum.
RECURSIVE PrefixSum(_, _, _)
PrefixSum(points, i, channel_size) ==
    IF i > channel_size THEN points
    ELSE PrefixSum([points EXCEPT ![i] = @ + points[i - 1]], i + 1, channel_size)

\* The scatter pass that walks the rows from 0 up to n-1.
RECURSIVE ScatterRows_Ascending(_, _, _, _, _)
ScatterRows_Ascending(map, points, rows, tablet_ids, i) ==
    IF i = 0 THEN [found |-> TRUE, points |-> points, rows |-> rows]
    ELSE LET row == Len(tablet_ids) - i + 1
         IN IF tablet_ids[row] \notin DOMAIN map
            THEN [found |-> FALSE, points |-> points, rows |-> rows]
            ELSE LET ci == map[tablet_ids[row]]
                 IN ScatterRows_Ascending(map,
                                          [points EXCEPT ![ci] = @ - 1],
                                          [rows EXCEPT ![points[ci] - 1] = row - 1],
                                          tablet_ids, i - 1)

\* Lines 472-481: the scatter pass, rows n-1 down to 0 (row ordinal i - 1 is
\* tablet_ids[i] here).  found = FALSE is the "invalid tablet id" return.
RECURSIVE ScatterRows(_, _, _, _, _)
ScatterRows(map, points, rows, tablet_ids, i) ==
    IF i = 0 THEN [found |-> TRUE, points |-> points, rows |-> rows]
    ELSE IF tablet_ids[i] \notin DOMAIN map
         THEN [found |-> FALSE, points |-> points, rows |-> rows]
         ELSE LET ci == map[tablet_ids[i]]
              IN ScatterRows(map,
                             [points EXCEPT ![ci] = @ - 1],
                             [rows EXCEPT ![points[ci] - 1] = i - 1],
                             tablet_ids, i - 1)

NullContext(map, st) ==
    [ok |-> FALSE, status |-> st, map |-> map, has_arrays |-> FALSE,
     row_indexes |-> <<>>, start_points |-> <<>>]

\* Lines 436-483: _create_write_context on the index map and the request.
\* map is the index map the call leaves behind.
CreateWriteContext(map, r) ==
    IF ~r.has_chunk /\ ~r.eos THEN NullContext(map, "INVALID_ARGUMENT")
    ELSE IF ~r.has_chunk
         THEN [NullContext(map, "OK") EXCEPT !.ok = TRUE]
    ELSE IF Len(r.tablet_ids) # r.num_rows THEN NullContext(map, "INVALID_ARGUMENT")
    ELSE LET channel_size == Cardinality(DOMAIN map)
             zero == [i \in 0..channel_size |-> 0]
             counted == CountRows(map, zero, r.tablet_ids, 1)
             summed == PrefixSum(counted.points, 1, channel_size)
             rows0 == [i \in 0..(r.num_rows - 1) |-> 0]
             sc == ScatterRows(counted.map, summed, rows0, r.tablet_ids,
                               Len(r.tablet_ids))
         IN IF ~sc.found THEN NullContext(counted.map, "INTERNAL_ERROR")
            ELSE [ok |-> TRUE, status |-> "OK", map |-> counted.map,
                  has_arrays |-> TRUE,
                  row_indexes |-> sc.rows, start_points |-> sc.points]

\* The status of the context is the last one reported.
UpdateStatus_LastWins(resp, st) == st

\* WriteContext::update_status: the first failure is kept.
UpdateStatus(resp, st) == IF st # "OK" /\ resp = "OK" THEN st ELSE resp

\* Lines 174-205: the writes the dispatch loop submits, in loop order, for a
\* context built before the index map had map_size entries.  An entry is
\* [tablet_id, rows]; rows is the sub-range req.indexes .. + req.indexes_size.
\* defined = FALSE when an iteration reads start_points or row_indexes out of
\* bounds, or finds no writer for the tablet id (the DCHECK of line 191).
RECURSIVE DispatchFrom(_, _, _, _, _)
DispatchFrom(ctx, r, writers, map_size, i) ==
    IF i >= map_size THEN [defined |-> TRUE, writes |-> <<>>]
    ELSE IF i + 1 \notin DOMAIN ctx.start_points
         THEN [defined |-> FALSE, writes |-> <<>>]
    ELSE LET from == ctx.start_points[i]
             size == ctx.start_points[i + 1] - from
             rest == DispatchFrom(ctx, r, writers, map_size, i + 1)
         IN IF size = 0 THEN rest
            ELSE IF r.tablet_ids[ctx.row_indexes[from] + 1] \notin DOMAIN writers
                 THEN [defined |-> FALSE, writes |-> <<>>]
            ELSE [defined |-> rest.defined,
                  writes |-> <<[tablet_id |-> r.tablet_ids[ctx.row_indexes[from] + 1],
                                rows |-> [k \in 1..size |-> ctx.row_indexes[from + k - 1]]]>>
                             \o rest.writes]

Dispatch(ctx, r, writers) ==
    DispatchFrom(ctx, r, writers,
                 IF r.has_chunk THEN Cardinality(DOMAIN ctx.map) ELSE 0, 0)

\* _close_sender returning the value it read.
CloseSenderResult_NoDecrement(n) == n

\* Line 338: the value _close_sender returns after reading n.
CloseSenderResult(n) == n - 1

\* The call closes the channel whenever no sender remains.
ClosesChannel_NotPositive(n) == CloseSenderResult(n) <= 0

\* Every eos request closes the channel.
ClosesChannel_AnyEos(n) == TRUE

\* Line 214: the call closes the channel.
ClosesChannel(n) == CloseSenderResult(n) = 0

\* The sender is closed, and the writers are committed, before the writes
\* are submitted.
PlaceAfter_CloseFirst(place, eos, closes) ==
    IF place = "admitted" THEN (IF eos THEN "close_sender" ELSE "create_context")
    ELSE IF place = "insert_partitions"
         THEN (IF closes THEN "commit" ELSE "create_context")
    ELSE IF place = "commit" THEN "create_context"
    ELSE "wait"

\* The call goes on to the completion update without waiting on the latch.
PlaceAfter_SkipWait(place, eos, closes) ==
    IF place = "admitted" THEN "create_context"
    ELSE IF place = "create_context" THEN (IF eos THEN "close_sender" ELSE "update_success")
    ELSE IF place = "insert_partitions"
         THEN (IF closes THEN "commit" ELSE "update_success")
    ELSE "update_success"

\* The order of the statements of add_chunk after the sliding window admitted
\* the request: the place that follows place.  The context is built and the
\* writes are submitted (162-208); an eos request then closes its sender
\* (214, 331-339) and, when that closes the channel, commits the writers
\* (215-240); then the call waits (246-249).
PlaceAfter(place, eos, closes) ==
    IF place = "admitted" THEN "create_context"
    ELSE IF place = "create_context" THEN (IF eos THEN "close_sender" ELSE "wait")
    ELSE IF place = "insert_partitions" THEN (IF closes THEN "commit" ELSE "wait")
    ELSE "wait"

\* The local reference to the context is never dropped.
LocalRefDropped_Kept(place) == 0

\* Line 246: context.reset() precedes the wait.
LocalRefDropped(place) == IF place = "wait" THEN 1 ELSE 0

\* The wait returns at once.
LatchReleased_NoWait(refs) == TRUE

\* Lines 179-181, 242-249: count_down_latch.wait() returns once the context,
\* which counts the latch down when it is destroyed, has lost its last
\* reference.
LatchReleased(refs) == refs = 0

\* The close sequence without the test of the replica state.
CloseRequestFor_NoReplicaTest(w, touched) ==
    IF w.partition_id \notin touched THEN "abort" ELSE "commit"

\* The lock of the slot is kept when the block ends.
LockAfter_NeverReleased(place, c) == c

\* Lines 289-303: the holder of the lock of the slot once call c is at place;
\* the lock_guard of line 290 lives until the block ends with the loop.
LockAfter(place, c) == IF place = "prune" THEN c ELSE NoCall

\* Lines 222-240 and 334-338: the places whose statements run under
\* _partitions_ids_lock.
PartitionsLockAt(place) == place \in {"insert_partitions", "commit"}

\* Lines 123-159 and 290-302: the places whose statements run under the lock
\* of the sender slot.
SenderLockAt(place) == place \in {"idle", "update_success", "prune"}

\* Lines 223-237: what the close sequence asks of the writer w.
CloseRequestFor(w, touched) ==
    IF w.replica_state = "Secondary" THEN "none"
    ELSE IF w.partition_id \notin touched THEN "abort"
    ELSE "commit"

\* The timeout fails the response.
StatusAfterWait_Timeout(resp, timeout) == IF timeout THEN "TIMEOUT" ELSE resp

\* Lines 268-274: the status of the response after the wait for the secondary
\* replicas; a timeout is logged and ends the loops.
StatusAfterWait(resp, timeout) == resp

\* Every state ends the wait for a secondary replica.
Settled_Any(state) == TRUE

\* Lines 260-261: the states that end the wait for a secondary replica.
Settled(state) == state \in {"kCommitted", "kAborted", "kUninitialized"}

(***************************************************************************)
(* State                                                                   *)
(***************************************************************************)
VARIABLES
    channel_state,                \* "constructed", "open" or "open_failed"
    delta_writers,                \* _delta_writers: tablet id -> writer
    tablet_id_to_sorted_indexes,  \* _tablet_id_to_sorted_indexes
    is_replicated_storage,        \* _is_replicated_storage
    senders,                      \* _senders: slot -> windows
    sender_lock,                  \* _senders[i].lock: the call holding it
    num_remaining_senders,        \* _num_remaining_senders
    partition_ids,                \* _partition_ids
    pc,                           \* call -> place in add_chunk
    branch,                       \* call -> branch taken in the sliding window
    request,                      \* call -> its request
    response,                     \* call -> status code of its response
    fetched,                      \* call -> <<n>> once _close_sender ran fetch_sub
    close_channel,                \* call -> the local close_channel
    context_refs,                 \* call -> reference count of its WriteContext
    writer_queue,                 \* tablet id -> requests the writer has not run
    writer_state,                 \* tablet id -> get_state()
    ops,                          \* every request handed to a writer
    timed_out,                    \* call -> the local timeout of the replica wait
    removed,                      \* calls of remove_tablets_channel
    crashed,                      \* the process died in undefined behaviour
    open_params,                  \* the request open was called with
    open_status,                  \* the status open returned
    reported,                     \* call -> statuses its callbacks were run with
    control_calls                 \* the add_segment and cancel calls made, in order

vars == <<channel_state, delta_writers, tablet_id_to_sorted_indexes,
          is_replicated_storage, senders, sender_lock, num_remaining_senders,
          partition_ids, pc, branch, request, response, fetched, close_channel,
          context_refs, writer_queue, writer_state, ops, timed_out, removed,
          crashed, open_params, open_status, reported, control_calls>>

\* What no step of add_chunk changes.
channel_vars == <<channel_state, delta_writers, is_replicated_storage,
                  open_params, open_status, control_calls, reported>>
writer_vars == <<writer_queue, writer_state, ops>>
close_vars == <<num_remaining_senders, partition_ids, fetched, close_channel,
                timed_out, removed>>

NoRequest ==
    [has_sender_id |-> FALSE, sender_id |-> 0, has_packet_seq |-> FALSE,
     packet_seq |-> 0, eos |-> FALSE, partition_ids |-> {},
     has_chunk |-> FALSE, num_rows |-> 0, tablet_ids |-> <<>>]

EmptySender ==
    [receive_sliding_window |-> {}, success_sliding_window |-> {},
     last_sliding_packet_seq |-> -1]

Init ==
    /\ channel_state = "constructed"
    /\ delta_writers = EmptyMap
    /\ tablet_id_to_sorted_indexes = EmptyMap
    /\ is_replicated_storage = FALSE
    /\ senders = EmptyMap
    /\ sender_lock = EmptyMap
    /\ num_remaining_senders = 0
    /\ partition_ids = {}
    /\ pc = [c \in Calls |-> "idle"]
    /\ branch = [c \in Calls |-> "none"]
    /\ request = [c \in Calls |-> NoRequest]
    /\ response = [c \in Calls |-> "NONE"]
    /\ fetched = [c \in Calls |-> <<>>]
    /\ close_channel = [c \in Calls |-> FALSE]
    /\ context_refs = [c \in Calls |-> 0]
    /\ writer_queue = EmptyMap
    /\ writer_state = EmptyMap
    /\ ops = {}
    /\ timed_out = [c \in Calls |-> FALSE]
    /\ removed = 0
    /\ crashed = FALSE
    /\ open_params = <<>>
    /\ open_status = "NONE"
    /\ reported = [c \in Calls |-> <<>>]
    /\ control_calls = <<>>

(***************************************************************************)
(* open (lines 59-71, 341-413)                                             *)
(***************************************************************************)
\* Lines 373-398: the number of AsyncDeltaWriter::open calls, from the k-th
\* on, that succeed before one fails (line 394 returns at the first failure).
RECURSIVE LeadingOK(_, _)
LeadingOK(results, k) ==
    IF k > Len(results) THEN 0
    ELSE IF results[k] # "OK" THEN 0
    ELSE 1 + LeadingOK(results, k + 1)

\* The loops of lines 344-368 end without a return: the index id is in the
\* schema and every allocation for the global dictionaries succeeded.
ReachesWriters(p) == p.index_known /\ p.dict_alloc_ok

\* Every writer before the last failure is opened.
OpenedCount_PastFailures(p) ==
    IF \E k \in 1..Len(p.writer_open) : p.writer_open[k] # "OK"
    THEN (CHOOSE k \in 1..Len(p.writer_open) :
              /\ p.writer_open[k] # "OK"
              /\ \A j \in (k + 1)..Len(p.writer_open) : p.writer_open[j] = "OK") - 1
    ELSE Len(p.writer_open)

\* The number of writers opened: all, or those before the first failure.
OpenedCount(p) == LeadingOK(p.writer_open, 1)

\* Lines 352, 361, 394, 412: the status _open_all_writers returns.
OpenStatus(p) ==
    IF ~p.index_known THEN "INVALID_ARGUMENT"
    ELSE IF ~p.dict_alloc_ok THEN "MEM_ALLOC_FAILED"
    ELSE IF OpenedCount(p) < Len(p.tablets) THEN p.writer_open[OpenedCount(p) + 1]
    ELSE "OK"

Open(p) ==
    /\ channel_state = "constructed"
    /\ num_remaining_senders' = p.num_senders
    /\ senders' = [i \in 0..(p.num_senders - 1) |-> EmptySender]
    /\ sender_lock' = [i \in 0..(p.num_senders - 1) |-> NoCall]
    /\ open_params' = <<p>>
    /\ open_status' = OpenStatus(p)
    /\ LET writers == IF ReachesWriters(p) THEN OpenWriters(p.tablets, OpenedCount(p))
                      ELSE EmptyMap
       IN /\ delta_writers' = writers
          /\ writer_queue' = [t \in DOMAIN writers |-> <<>>]
          /\ writer_state' = [t \in DOMAIN writers |-> "kWriting"]
    /\ is_replicated_storage' =
           IF ReachesWriters(p) THEN p.is_replicated_storage ELSE is_replicated_storage
    /\ tablet_id_to_sorted_indexes' =
           IF OpenStatus(p) = "OK" THEN SortedIndexes(TabletIdsOf(p.tablets))
           ELSE EmptyMap
    /\ channel_state' = IF OpenStatus(p) = "OK" THEN "open" ELSE "open_failed"
    /\ UNCHANGED <<partition_ids, pc, branch, request, response, fetched,
                   close_channel, context_refs, ops, timed_out, removed, crashed,
                   reported, control_calls>>

(***************************************************************************)
(* add_chunk (lines 95-329)                                                *)
(***************************************************************************)
Return(c, st, place) ==
    /\ response' = [response EXCEPT ![c] = st]
    /\ pc' = [pc EXCEPT ![c] = place]

\* Lines 95-160: the request is validated and, under the lock of its sender
\* slot, looked up in the sliding window.  Calls are numbered in the order in
\* which they begin.  A call ends at "rejected" (a return of lines 99-155),
\* "failed" (line 165) or "done" (line 329).
AddChunk(c, r) ==
    /\ channel_state = "open"
    /\ ~crashed
    /\ pc[c] = "idle"
    /\ \A d \in 1..(c - 1) : pc[d] # "idle"
    /\ request' = [request EXCEPT ![c] = r]
    /\ IF ValidateRequest(r, Cardinality(DOMAIN senders)) # "OK"
       THEN /\ Return(c, ValidateRequest(r, Cardinality(DOMAIN senders)), "rejected")
            /\ branch' = [branch EXCEPT ![c] = "invalid_request"]
            /\ UNCHANGED senders
       ELSE /\ sender_lock[SlotOf(r)] = NoCall
            /\ LET b == DedupBranch(senders[SlotOf(r)], r.packet_seq, r.eos)
               IN /\ branch' = [branch EXCEPT ![c] = b]
                  /\ IF b = "admitted"
                     THEN /\ senders' = [senders EXCEPT ![SlotOf(r)] =
                                             ReceiveInsert(@, r.packet_seq)]
                          /\ pc' = [pc EXCEPT ![c] = PlaceAfter("admitted", r.eos, FALSE)]
                          /\ UNCHANGED response
                     ELSE /\ Return(c, BranchStatus(b), "rejected")
                          /\ UNCHANGED senders
    /\ UNCHANGED <<channel_vars, tablet_id_to_sorted_indexes, sender_lock,
                   close_vars, context_refs, writer_vars, crashed>>

\* delta_writer->write(req, cb) for every write of the set.
Submit(c, writes) ==
    /\ writer_queue' =
           [t \in DOMAIN writer_queue |->
               IF \E w \in writes : w.tablet_id = t
               THEN Append(writer_queue[t], [kind |-> "write", call |-> c])
               ELSE writer_queue[t]]
    /\ ops' = ops \cup {[call |-> c, tablet_id |-> w.tablet_id, kind |-> "write",
                         rows |-> w.rows] : w \in writes}

\* What the dispatch loop may do once it has read out of bounds or looked up
\* a tablet id without writer: the process dies, or the loop goes on with
\* values that are not the batch's and hands some writers a range of them.
UndefinedOutcomes(writers) ==
    {[crash |-> TRUE, targets |-> {}]}
        \cup {[crash |-> FALSE, targets |-> W] : W \in SUBSET DOMAIN writers}

\* Lines 162-208: the context is built and one write per tablet with rows is
\* submitted; each write holds a reference to the context.
WriteChunk(c) ==
    /\ pc[c] = "create_context"
    /\ ~crashed
    /\ LET r == request[c]
           ctx == CreateWriteContext(tablet_id_to_sorted_indexes, r)
           plan == Dispatch(ctx, r, delta_writers)
           place == PlaceAfter("create_context", r.eos, close_channel[c])
       IN /\ tablet_id_to_sorted_indexes' = ctx.map
          /\ IF ~ctx.ok
             THEN /\ Return(c, ctx.status, "failed")
                  /\ UNCHANGED <<context_refs, writer_vars, crashed>>
             ELSE IF plan.defined
             THEN /\ response' = [response EXCEPT ![c] = "OK"]
                  /\ Submit(c, {plan.writes[i] : i \in 1..Len(plan.writes)})
                  /\ context_refs' = [context_refs EXCEPT
                         ![c] = @ + 1 + Len(plan.writes) - LocalRefDropped(place)]
                  /\ pc' = [pc EXCEPT ![c] = place]
                  /\ UNCHANGED <<writer_state, crashed>>
             ELSE \E o \in UndefinedOutcomes(delta_writers) :
                  /\ crashed' = o.crash
                  /\ response' = [response EXCEPT ![c] = "OK"]
                  /\ Submit(c, {[tablet_id |-> t, rows |-> <<>>] : t \in o.targets})
                  /\ context_refs' = [context_refs EXCEPT
                         ![c] = @ + 1 + Cardinality(o.targets) - LocalRefDropped(place)]
                  /\ pc' = [pc EXCEPT ![c] = place]
                  /\ UNCHANGED writer_state
    /\ UNCHANGED <<channel_vars, senders, sender_lock, branch, request, close_vars>>

\* Lines 332-333: _close_sender, the fetch_sub.
CloseSenderFetchSub(c) ==
    /\ pc[c] = "close_sender"
    /\ ~crashed
    /\ fetched' = [fetched EXCEPT ![c] = <<num_remaining_senders>>]
    /\ num_remaining_senders' = num_remaining_senders - 1
    /\ pc' = [pc EXCEPT ![c] = "insert_partitions"]
    /\ UNCHANGED <<channel_vars, tablet_id_to_sorted_indexes, senders, sender_lock,
                   partition_ids, branch, request, response, close_channel,
                   timed_out, removed, context_refs, writer_vars, crashed>>

\* Lines 334-338, 214-215: the partition ids of the request are recorded
\* under _partitions_ids_lock and the result of _close_sender is tested.
CloseSenderInsert(c) ==
    /\ pc[c] = "insert_partitions"
    /\ ~crashed
    /\ partition_ids' = partition_ids \cup request[c].partition_ids
    /\ LET closes == ClosesChannel(fetched[c][1])
           place == PlaceAfter("insert_partitions", request[c].eos, closes)
       IN /\ close_channel' = [close_channel EXCEPT ![c] = closes]
          /\ pc' = [pc EXCEPT ![c] = place]
          /\ context_refs' = [context_refs EXCEPT ![c] = @ - LocalRefDropped(place)]
    /\ UNCHANGED <<channel_vars, tablet_id_to_sorted_indexes, senders, sender_lock,
                   num_remaining_senders, fetched, timed_out, removed, branch,
                   request, response, writer_vars, crashed>>

\* Lines 216-240: under _partitions_ids_lock every writer that is not a
\* secondary replica is committed or aborted; each commit holds a reference
\* to the context.
CommitWriters(c) ==
    /\ pc[c] = "commit"
    /\ ~crashed
    /\ LET ask == [t \in DOMAIN delta_writers |->
                       CloseRequestFor(delta_writers[t], partition_ids)]
           commits == {t \in DOMAIN delta_writers : ask[t] = "commit"}
           aborts == {t \in DOMAIN delta_writers : ask[t] = "abort"}
       IN /\ writer_queue' =
                 [t \in DOMAIN writer_queue |->
                     IF t \in commits
                     THEN Append(writer_queue[t], [kind |-> "commit", call |-> c])
                     ELSE writer_queue[t]]
          /\ writer_state' =
                 [t \in DOMAIN writer_state |->
                     IF t \in aborts THEN "kAborted" ELSE writer_state[t]]
          /\ ops' = ops \cup {[call |-> c, tablet_id |-> t, kind |-> ask[t],
                               rows |-> <<>>] : t \in commits \cup aborts}
          /\ LET place == PlaceAfter("commit", request[c].eos, close_channel[c])
             IN /\ context_refs' = [context_refs EXCEPT
                       ![c] = @ + Cardinality(commits) - LocalRefDropped(place)]
                /\ pc' = [pc EXCEPT ![c] = place]
    /\ UNCHANGED <<channel_vars, tablet_id_to_sorted_indexes, senders, sender_lock,
                   close_vars, branch, request, response, crashed>>

\* Lines 249-252: count_down_latch.wait() returns once the context is gone.
WaitLatch(c) ==
    /\ pc[c] = "wait"
    /\ ~crashed
    /\ LatchReleased(context_refs[c])
    /\ pc' = [pc EXCEPT ![c] =
                 IF is_replicated_storage /\ close_channel[c]
                 THEN "wait_secondary" ELSE "update_success"]
    /\ UNCHANGED <<channel_vars, tablet_id_to_sorted_indexes, senders, sender_lock,
                   close_vars, branch, request, response, context_refs, writer_vars,
                   crashed>>

AllSecondarySettled ==
    \A t \in DOMAIN delta_writers :
        delta_writers[t].replica_state = "Secondary" => Settled(writer_state[t])

\* Lines 252-287: the loop ends when every secondary replica has settled, or
\* when the time since t0 exceeds timeout_ms while one has not.
WaitSecondary(c) ==
    /\ pc[c] = "wait_secondary"
    /\ ~crashed
    /\ timed_out' = [timed_out EXCEPT ![c] = ~AllSecondarySettled]
    /\ response' = [response EXCEPT ![c] = StatusAfterWait(@, ~AllSecondarySettled)]
    /\ pc' = [pc EXCEPT ![c] = "update_success"]
    /\ UNCHANGED <<channel_vars, tablet_id_to_sorted_indexes, senders, sender_lock,
                   num_remaining_senders, partition_ids, fetched, close_channel,
                   removed, branch, request, context_refs, writer_vars, crashed>>

\* Lines 290-292: the lock of the sender slot is taken and packet_seq is
\* inserted into the success window.
UpdateSuccess(c) ==
    /\ pc[c] = "update_success"
    /\ ~crashed
    /\ sender_lock[SlotOf(request[c])] = NoCall
    /\ sender_lock' = [sender_lock EXCEPT ![SlotOf(request[c])] = LockAfter("prune", c)]
    /\ senders' = [senders EXCEPT ![SlotOf(request[c])] =
                       SuccessInsert(@, request[c].packet_seq)]
    /\ pc' = [pc EXCEPT ![c] = "prune"]
    /\ UNCHANGED <<channel_vars, tablet_id_to_sorted_indexes, close_vars, branch, request,
                   response, context_refs, writer_vars, crashed>>

\* Lines 293-302: one iteration of the loop.  When the condition to erase
\* fails the iteration changes nothing, and the same iteration follows.
PruneIterate(c) ==
    /\ pc[c] = "prune"
    /\ ~crashed
    /\ PruneWanted(senders[SlotOf(request[c])])
    /\ senders' = [senders EXCEPT ![SlotOf(request[c])] =
                       IF PruneCan(@) THEN PruneOne(@) ELSE @]
    /\ UNCHANGED <<channel_vars, tablet_id_to_sorted_indexes, sender_lock,
                   close_vars, pc, branch, request, response, context_refs, writer_vars,
                   crashed>>

\* Lines 293, 303-329: the loop ends, the lock is released, and the call that
\* closed the channel removes it from the load channel and persists the
\* transactions.
Finish(c) ==
    /\ pc[c] = "prune"
    /\ ~crashed
    /\ ~PruneWanted(senders[SlotOf(request[c])])
    /\ sender_lock' = [sender_lock EXCEPT ![SlotOf(request[c])] = LockAfter("done", c)]
    /\ removed' = IF close_channel[c] THEN removed + 1 ELSE removed
    /\ pc' = [pc EXCEPT ![c] = "done"]
    /\ UNCHANGED <<channel_vars, tablet_id_to_sorted_indexes, senders,
                   num_remaining_senders, partition_ids, fetched, close_channel,
                   timed_out, branch, request, response, context_refs, writer_vars, crashed>>

(***************************************************************************)
(* The tablet writers (AsyncDeltaWriter)                                   *)
(***************************************************************************)
WriterStatuses == {"OK", "INTERNAL_ERROR"}

\* The writer of tablet t runs its oldest request with status st and runs the
\* callback (WriteCallback::run, lines 485-511), which updates the status of
\* the context and drops its reference.
WriterRun(t, st) ==
    /\ ~crashed
    /\ writer_queue[t] # <<>>
    /\ LET task == Head(writer_queue[t])
       IN /\ response' = [response EXCEPT ![task.call] = UpdateStatus(@, st)]
          /\ reported' = [reported EXCEPT ![task.call] = Append(@, st)]
          /\ context_refs' = [context_refs EXCEPT ![task.call] = @ - 1]
          /\ writer_state' =
                 [writer_state EXCEPT ![t] =
                     IF task.kind = "commit" /\ st = "OK" /\ @ = "kWriting"
                     THEN "kCommitted" ELSE @]
    /\ writer_queue' = [writer_queue EXCEPT ![t] = Tail(@)]
    /\ UNCHANGED <<channel_state, delta_writers, is_replicated_storage, open_params,
                   open_status, control_calls, tablet_id_to_sorted_indexes, senders, sender_lock,
                   close_vars, pc, branch, request, ops, crashed>>

\* A secondary replica is committed or aborted by its primary replica.
SecondarySettle(t, state) ==
    /\ ~crashed
    /\ delta_writers[t].replica_state = "Secondary"
    /\ writer_state[t] = "kWriting"
    /\ writer_state' = [writer_state EXCEPT ![t] = state]
    /\ UNCHANGED <<channel_vars, tablet_id_to_sorted_indexes, senders, sender_lock,
                   close_vars, pc, branch, request, response, context_refs, writer_queue,
                   ops, crashed>>

(***************************************************************************)
(* add_segment (lines 73-93) and cancel (lines 415-434)                    *)
(***************************************************************************)
\* Lines 418-421: every writer of the channel.
AllWriters(writers) == DOMAIN writers

\* The lookup that yields every writer of the channel.
FindWriter_Every(writers, tablet_id) == DOMAIN writers

\* Lines 76-77, 430-431: _delta_writers.find(tablet_id), the writer found.
FindWriter(writers, tablet_id) ==
    IF tablet_id \in DOMAIN writers THEN {tablet_id} ELSE {}

\* The guard is never released.
ClosureRuns_NoRelease(found) == 1

\* Lines 75, 81, 92: the number of times the ClosureGuard runs done when
\* add_segment returns; it is released after write_segment.
ClosureRuns(found) == IF found THEN 0 ELSE 1

\* Lines 78, 91: the status add_segment itself sets in the response.
SegmentStatus(found) == IF found THEN "NONE" ELSE "INTERNAL_ERROR"

\* The request handed to a writer outside add_chunk.
ControlOp(t, kind) == [call |-> NoCall, tablet_id |-> t, kind |-> kind, rows |-> <<>>]

\* Lines 73-93.
AddSegment(t) ==
    /\ ~crashed
    /\ Len(control_calls) < MaxControl
    /\ LET to == FindWriter(delta_writers, t)
       IN /\ control_calls' =
                 Append(control_calls,
                        [op |-> "add_segment", tablet_id |-> t,
                         status |-> SegmentStatus(to # {}),
                         closure_runs |-> ClosureRuns(to # {}),
                         targets |-> to])
          /\ ops' = ops \cup {ControlOp(w, "segment") : w \in to}
    /\ UNCHANGED <<channel_state, delta_writers, is_replicated_storage, open_params,
                   open_status, reported, tablet_id_to_sorted_indexes, senders,
                   sender_lock, close_vars, pc, branch, request, response,
                   context_refs, writer_queue, writer_state, crashed>>

\* abort on every writer of the set.
AbortWriters(to, op, t) ==
    /\ ~crashed
    /\ Len(control_calls) < MaxControl
    /\ control_calls' =
           Append(control_calls,
                  [op |-> op, tablet_id |-> t, status |-> "NONE", closure_runs |-> 0,
                   targets |-> to])
    /\ ops' = ops \cup {ControlOp(w, "cancel_abort") : w \in to}
    /\ writer_state' =
           [w \in DOMAIN writer_state |->
               IF w \in to THEN "kAborted" ELSE writer_state[w]]
    /\ UNCHANGED <<channel_state, delta_writers, is_replicated_storage, open_params,
                   open_status, reported, tablet_id_to_sorted_indexes, senders,
                   sender_lock, close_vars, pc, branch, request, response,
                   context_refs, writer_queue, crashed>>

\* Lines 415-427: cancel().
Cancel == AbortWriters(AllWriters(delta_writers), "cancel", 0)

\* Lines 429-434: cancel(tablet_id).
CancelTablet(t) == AbortWriters(FindWriter(delta_writers, t), "cancel_tablet", t)

(***************************************************************************)
(* Requests                                                                *)
(***************************************************************************)
NoChunk == [has_chunk |-> FALSE, num_rows |-> 0, tablet_ids |-> <<>>]
Chunk(ids) == [has_chunk |-> TRUE, num_rows |-> Len(ids), tablet_ids |-> ids]

AddChunkRequest(sender, seq, eos, parts, chunk) ==
    [has_sender_id |-> TRUE, sender_id |-> sender, has_packet_seq |-> TRUE,
     packet_seq |-> seq, eos |-> eos, partition_ids |-> parts,
     has_chunk |-> chunk.has_chunk, num_rows |-> chunk.num_rows,
     tablet_ids |-> chunk.tablet_ids]

Tablet(id, partition, replica) ==
    [tablet_id |-> id, partition_id |-> partition, replica_state |-> replica]

\* An open request for which nothing fails.
OpenRequest(tablets, n, replicated) ==
    [tablets |-> tablets, num_senders |-> n, is_replicated_storage |-> replicated,
     index_known |-> TRUE, dict_alloc_ok |-> TRUE,
     writer_open |-> [i \in 1..Len(tablets) |-> "OK"]]

\* Two tablets of two partitions, written by one or two senders; with
\* replicated storage the writer of tablet 2 is a secondary replica.
CloseOpens ==
    {OpenRequest(<<Tablet(5, 10, "Primary"), Tablet(2, 20, "Primary")>>, n, FALSE) :
         n \in 1..MaxSenders}
    \cup {OpenRequest(<<Tablet(5, 10, "Primary"), Tablet(2, 20, "Secondary")>>,
                      1, TRUE)}

\* What an eos request carries: rows of tablet 5 and its partition, or no
\* rows and the partition of tablet 2.
EosPayloads ==
    {[parts |-> {10}, chunk |-> Chunk(<<5>>)], [parts |-> {20}, chunk |-> NoChunk]}

\* Batches and eos batches of every sender, with the first two sequence
\* numbers.
CloseRequests ==
    {AddChunkRequest(s, q, FALSE, {}, Chunk(<<5, 2>>)) :
         s \in 0..(MaxSenders - 1), q \in 0..1}
    \cup {AddChunkRequest(s, q, TRUE, e.parts, e.chunk) :
         s \in 0..(MaxSenders - 1), q \in 0..1, e \in EosPayloads}

(***************************************************************************)
(* Specifications                                                          *)
(***************************************************************************)
CallStep ==
    \/ \E c \in Calls : WriteChunk(c)
    \/ \E c \in Calls : CloseSenderFetchSub(c)
    \/ \E c \in Calls : CloseSenderInsert(c)
    \/ \E c \in Calls : CommitWriters(c)
    \/ \E c \in Calls : WaitLatch(c)
    \/ \E c \in Calls : UpdateSuccess(c)
    \/ \E c \in Calls : PruneIterate(c)
    \/ \E c \in Calls : Finish(c)

WriterStep ==
    \E t \in DOMAIN delta_writers : \E st \in WriterStatuses : WriterRun(t, st)

\* The steps that only a channel with replicated storage takes.
ReplicaStep ==
    \/ \E c \in Calls : WaitSecondary(c)
    \/ \E t \in DOMAIN delta_writers : \E state \in {"kCommitted", "kAborted"} :
           SecondarySettle(t, state)

\* Two concurrent calls on a channel of one or two senders.
Next ==
    \/ \E p \in CloseOpens : Open(p)
    \/ \E c \in 1..CloseCalls : \E r \in CloseRequests : AddChunk(c, r)
    \/ CallStep
    \/ WriterStep
    \/ ReplicaStep

Spec == Init /\ [][Next]_vars

\* The tablets of CloseOpens.
CloseTablets == {2, 5}

\* The writer of tablet t runs the callback of its oldest request.
WriterRuns(t) ==
    /\ t \in DOMAIN delta_writers
    /\ \E st \in WriterStatuses : WriterRun(t, st)

\* Every writer eventually runs the callback of each request it was given,
\* and a call whose latch has been counted down is eventually resumed.
Fairness ==
    /\ \A t \in CloseTablets : WF_vars(WriterRuns(t))
    /\ \A c \in Calls : WF_vars(WaitLatch(c))

\* Spec with writers that run their callbacks.
SpecFair == Init /\ [][Next]_vars /\ Fairness

\* One sender, no replicated storage.
WindowOpens ==
    {OpenRequest(<<Tablet(5, 10, "Primary"), Tablet(2, 20, "Primary")>>, 1, FALSE)}

\* Batches of sender 0 with every sequence number up to MaxSeq, an eos batch
\* with sequence number 0, and a batch with neither chunk nor eos, for which
\* line 163 builds no context.
WindowRequests ==
    {AddChunkRequest(0, q, FALSE, {}, Chunk(<<5>>)) : q \in 0..MaxSeq}
    \cup {AddChunkRequest(0, 0, TRUE, {10}, NoChunk),
          AddChunkRequest(0, 1, FALSE, {}, NoChunk)}

\* MaxCalls concurrent calls of one sender.
NextWindow ==
    \/ \E p \in WindowOpens : Open(p)
    \/ \E c \in Calls : \E r \in WindowRequests : AddChunk(c, r)
    \/ CallStep
    \/ WriterStep

SpecWindow == Init /\ [][NextWindow]_vars

\* The tablet ids the rows of a batch carry.
RowIds == {2, 5, 8}

\* The results AsyncDeltaWriter::open may give.
OpenResults == {"OK", "INTERNAL_ERROR", "MEM_LIMIT_EXCEEDED"}

\* Opens of the tablets 5, 2, 8 in which the index id may be unknown, an
\* allocation may fail and any writer may fail to open; opens of the tablets
\* 5, 2, for which 8 is not a tablet of the channel; an open that names
\* tablet 5 twice.
BatchOpens ==
    {[OpenRequest(<<Tablet(5, 10, "Primary"), Tablet(2, 20, "Primary"),
                    Tablet(8, 20, "Primary")>>, n, FALSE)
         EXCEPT !.index_known = k, !.dict_alloc_ok = a, !.writer_open = w] :
         n \in 1..MaxSenders, k \in BOOLEAN, a \in BOOLEAN,
         w \in [1..3 -> OpenResults]}
    \cup {OpenRequest(<<Tablet(5, 10, "Primary"), Tablet(2, 20, "Primary")>>, 1, FALSE),
          OpenRequest(<<Tablet(5, 10, "Primary"), Tablet(5, 10, "Primary")>>, 1, FALSE)}

\* The chunks the first call may carry: those of up to MaxRows rows, the
\* chunk of rows 5, 2, 5, 8, and a chunk of three rows that comes with two
\* tablet ids.  A later call carries a chunk of two rows.
BatchChunks(c) ==
    IF c = 1
    THEN {Chunk(ids) : ids \in UNION {[1..n -> RowIds] : n \in 1..MaxRows}}
             \cup {Chunk(<<5, 2, 5, 8>>), [Chunk(<<5, 2>>) EXCEPT !.num_rows = 3]}
    ELSE {Chunk(ids) : ids \in [1..2 -> RowIds]}

\* Requests whose shape lines 99-120 reject.
MalformedRequests ==
    {[AddChunkRequest(0, 0, FALSE, {}, Chunk(<<5>>)) EXCEPT !.has_sender_id = FALSE],
     AddChunkRequest(-1, 0, FALSE, {}, Chunk(<<5>>)),
     AddChunkRequest(MaxSenders, 0, TRUE, {10}, Chunk(<<5>>)),
     [AddChunkRequest(0, 0, TRUE, {10}, Chunk(<<5>>)) EXCEPT !.has_packet_seq = FALSE]}

\* What call c of SpecBatch may carry: a batch of sender 0 with sequence
\* number c - 1 and one of these chunks, an eos batch of sender 0, or a
\* malformed request.
BatchRequests(c) ==
    {AddChunkRequest(0, c - 1, FALSE, {}, ch) : ch \in BatchChunks(c)}
    \cup {AddChunkRequest(0, c - 1, TRUE, {10}, Chunk(<<5, 2>>))}
    \cup MalformedRequests

\* BatchCalls calls on a channel opened in any of these ways.
NextBatch ==
    \/ \E p \in BatchOpens : Open(p)
    \/ \E c \in 1..BatchCalls : \E r \in BatchRequests(c) : AddChunk(c, r)
    \/ CallStep
    \/ WriterStep

SpecBatch == Init /\ [][NextBatch]_vars

\* The statuses a writer may run a callback with: two distinct failures.
CallbackStatuses == {"OK", "INTERNAL_ERROR", "MEM_LIMIT_EXCEEDED"}

\* Two tablets of one partition, one sender.
StatusOpens ==
    {OpenRequest(<<Tablet(5, 10, "Primary"), Tablet(2, 10, "Primary")>>, 1, FALSE)}

\* The first call carries a batch with rows of both tablets, with or without
\* eos; the second a batch with a row of tablet 5.
StatusRequests(c) ==
    IF c = 1
    THEN {AddChunkRequest(0, 0, e, {10}, Chunk(<<5, 2, 5>>)) : e \in BOOLEAN}
    ELSE {AddChunkRequest(0, 1, FALSE, {}, Chunk(<<5>>))}

\* Two calls whose writes, and commits, complete in any order with any of
\* the statuses.
NextStatus ==
    \/ \E p \in StatusOpens : Open(p)
    \/ \E c \in 1..2 : \E r \in StatusRequests(c) : AddChunk(c, r)
    \/ CallStep
    \/ \E t \in DOMAIN delta_writers : \E st \in CallbackStatuses : WriterRun(t, st)

SpecStatus == Init /\ [][NextStatus]_vars

\* Two tablets, one sender.
ControlOpens ==
    {OpenRequest(<<Tablet(5, 10, "Primary"), Tablet(2, 20, "Primary")>>, 1, FALSE)}

\* A batch for both tablets, then the eos batch.
ControlRequests(c) ==
    IF c = 1 THEN {AddChunkRequest(0, 0, FALSE, {}, Chunk(<<5, 2>>))}
    ELSE {AddChunkRequest(0, 1, TRUE, {10}, Chunk(<<5>>))}

\* The tablet ids add_segment and cancel are called with: tablets of the
\* channel and one that is not.
ControlIds == {2, 5, 9}

\* add_segment and cancel at any moment of two add_chunk calls, also before
\* open.
NextControl ==
    \/ \E p \in ControlOpens : Open(p)
    \/ \E c \in 1..2 : \E r \in ControlRequests(c) : AddChunk(c, r)
    \/ CallStep
    \/ WriterStep
    \/ \E t \in ControlIds : AddSegment(t)
    \/ Cancel
    \/ \E t \in ControlIds : CancelTablet(t)

SpecControl == Init /\ [][NextControl]_vars

(***************************************************************************)
(* Properties                                                              *)
(***************************************************************************)
NumSenders == Cardinality(DOMAIN senders)

\* The step in which call c runs lines 95-160.
Begins(c) == pc[c] = "idle" /\ pc'[c] # "idle"

\* Call d has inserted its packet_seq into the success window (line 292).
InsertedSuccess(d) == pc[d] \in {"prune", "done"}

\* Call c began with a sender id and a packet_seq that lines 99-120 accept.
WellFormed(c) == pc[c] # "idle" /\ branch[c] # "invalid_request"

SamePair(c, d) ==
    /\ request[c].sender_id = request[d].sender_id
    /\ request[c].packet_seq = request[d].packet_seq

\* The step hands nothing to a writer.
NothingDispatched == ops' = ops /\ writer_queue' = writer_queue

\* The step leaves the sender slots and the sender count alone.
SlotsUnchanged == senders' = senders /\ num_remaining_senders' = num_remaining_senders

\* C1 as stated: an add_chunk whose request is identical to that of a call that
\* has inserted its packet_seq into the success window returns OK and
\* dispatches no write, commit or abort.
C1_ReplayReturnsOK ==
    [][\A c \in Calls :
         (Begins(c) /\ \E d \in Calls : InsertedSuccess(d) /\ request[d] = request'[c])
             => (response'[c] = "OK" /\ pc'[c] = "rejected" /\ NothingDispatched)]_vars

\* C1 amended: such an add_chunk dispatches nothing and changes no sender slot
\* and no sender count; it returns DUPLICATE_RPC_INVOCATION when the request
\* has eos and its packet_seq is still in the receive window, and OK otherwise.
C1_ReplayDispatchesNothing ==
    [][\A c \in Calls :
         (Begins(c) /\ \E d \in Calls : InsertedSuccess(d) /\ request[d] = request'[c])
             => /\ pc'[c] = "rejected"
                /\ NothingDispatched
                /\ SlotsUnchanged
                /\ response'[c] =
                       IF /\ request'[c].eos
                          /\ request'[c].packet_seq \in
                                 senders[request'[c].sender_id].receive_sliding_window
                       THEN "DUPLICATE_RPC_INVOCATION" ELSE "OK"]_vars

\* A batch was admitted and ran to its end, and a call with the identical
\* request was answered OK by the already-success branch.
C1_Witness ==
    \E c, d \in Calls :
        /\ c # d
        /\ request[c] = request[d]
        /\ ~request[c].eos
        /\ pc[d] = "done" /\ branch[d] = "admitted"
        /\ pc[c] = "rejected" /\ branch[c] = "already_success"
        /\ response[c] = "OK"

\* C2 as stated: of the calls that carry one (sender, packet_seq), at most one
\* is admitted, and every other one returns DUPLICATE_RPC_INVOCATION or OK
\* without dispatching.
C2_OthersDuplicateOrOK ==
    \A c, d \in Calls :
        (c # d /\ WellFormed(c) /\ WellFormed(d) /\ SamePair(c, d)
              /\ branch[c] = "admitted")
            => /\ pc[d] = "rejected"
               /\ response[d] \in {"DUPLICATE_RPC_INVOCATION", "OK"}
               /\ ~\E o \in ops : o.call = d

\* C2 amended: at most one of them is admitted; every other one returns from
\* the window without dispatching, with DUPLICATE_RPC_INVOCATION or OK, or, if
\* it began before the admitted call, with INVALID_ARGUMENT.
C2_ExactlyOnce ==
    \A c, d \in Calls :
        (c # d /\ WellFormed(c) /\ WellFormed(d) /\ SamePair(c, d)
              /\ branch[c] = "admitted")
            => /\ pc[d] = "rejected"
               /\ branch[d] \in {"already_process", "already_success",
                                 "before_window", "too_far"}
               /\ response[d] = BranchStatus(branch[d])
               /\ branch[d] = "too_far" => d < c
               /\ ~\E o \in ops : o.call = d

\* Two calls carried the same pair while the first was in process: the first
\* was admitted and dispatched, the second was answered
\* DUPLICATE_RPC_INVOCATION.
C2_Witness ==
    \E c, d \in Calls :
        /\ c # d
        /\ WellFormed(c) /\ WellFormed(d) /\ SamePair(c, d)
        /\ branch[c] = "admitted"
        /\ \E o \in ops : o.call = c /\ o.kind = "write"
        /\ branch[d] = "already_process"

\* The admitted eos calls of sender i.
EosCalls(i) ==
    {c \in Calls : /\ WellFormed(c) /\ branch[c] = "admitted"
                   /\ request[c].eos /\ request[c].sender_id = i}

\* The calls that have run the fetch_sub of _close_sender.
Decremented == {c \in Calls : fetched[c] # <<>>}

\* The writer of tablet t was handed a request of this kind.
IssuedTo(t, kind) == \E o \in ops : o.tablet_id = t /\ o.kind = kind

CloseOps == {o \in ops : o.kind \in {"commit", "abort"}}

\* The partition ids of all admitted eos batches.
EosPartitions ==
    UNION {request[c].partition_ids : c \in UNION {EosCalls(i) : i \in DOMAIN senders}}

\* C3: once every sender has sent its one eos batch and those calls have
\* returned, a writer (that is not a secondary replica) was committed iff its
\* partition id is among the partition ids of the eos batches, and aborted
\* otherwise.
C3_PartitionCoverage ==
    (/\ channel_state = "open"
     /\ \A i \in DOMAIN senders :
            /\ Cardinality(EosCalls(i)) = 1
            /\ \A c \in EosCalls(i) : pc[c] = "done")
        => \A t \in DOMAIN delta_writers :
               delta_writers[t].replica_state # "Secondary"
                   => /\ IssuedTo(t, "commit")
                          <=> delta_writers[t].partition_id \in EosPartitions
                      /\ IssuedTo(t, "abort")
                          <=> delta_writers[t].partition_id \notin EosPartitions

\* C4: commit and abort are issued only by the call whose fetch_sub read 1
\* (its decrement makes the count zero); at most one call reads 1 and at most
\* one closes the channel; once as many eos calls have decremented as there
\* are senders, one of them has read 1; no writer is handed more than one
\* commit or abort.
C4_OneCloser ==
    /\ \A o \in CloseOps : fetched[o.call] = <<1>>
    /\ Cardinality({c \in Calls : fetched[c] = <<1>>}) <= 1
    /\ Cardinality({c \in Calls : close_channel[c]}) <= 1
    /\ \A c \in Calls : close_channel[c] => fetched[c] = <<1>>
    /\ (channel_state = "open" /\ Cardinality(Decremented) >= NumSenders)
           => \E c \in Calls : fetched[c] = <<1>>
    /\ \A t \in DOMAIN delta_writers :
           Cardinality({o \in CloseOps : o.tablet_id = t}) <= 1

\* The eos calls of two distinct senders have both closed their sender; one of
\* them closed the channel and committed a writer, the other did not.
C4_Witness ==
    \E c, d \in Calls :
        /\ c \in Decremented /\ d \in Decremented
        /\ request[c].sender_id # request[d].sender_id
        /\ close_channel[c] /\ ~close_channel[d]
        /\ pc[d] \in {"wait", "update_success", "prune", "done"}
        /\ \E o \in ops : o.call = c /\ o.kind = "commit"

\* C5: the count of remaining senders is decremented once per sender: it never
\* drops below zero, every fetch_sub reads at least 1 (the DCHECK_GE of line
\* 333), and no two calls of one sender decrement it.
C5_DecrementOncePerSender ==
    /\ num_remaining_senders >= 0
    /\ \A c \in Decremented : fetched[c][1] >= 1
    /\ \A c, d \in Decremented :
           c # d => request[c].sender_id # request[d].sender_id

\* The step in which call c hands a commit or an abort to a writer.
IssuesClose(c) ==
    \E o \in ops' \ ops : o.call = c /\ o.kind \in {"commit", "abort"}

\* The step in which call c hands a write to a writer.
IssuesWrite(c) == \E o \in ops' \ ops : o.call = c /\ o.kind = "write"

\* The tablets that have a row in the chunk of the request.
TabletsWithRows(r) ==
    IF r.has_chunk THEN {r.tablet_ids[i] : i \in 1..Len(r.tablet_ids)} ELSE {}

\* Call c has submitted a write to the writer of every tablet of its chunk.
WritesSubmitted(c) ==
    {o.tablet_id : o \in {x \in ops : x.call = c /\ x.kind = "write"}}
        = TabletsWithRows(request[c])

\* No write is waiting in a writer and no admitted call has yet to dispatch.
AllWritesObserved ==
    /\ \A t \in DOMAIN writer_queue :
           \A k \in 1..Len(writer_queue[t]) : writer_queue[t][k].kind # "write"
    /\ \A d \in Calls : pc[d] # "create_context"

C7_CloseAfterOwnWrites ==
    [][\A c \in Calls :
         /\ (fetched[c] = <<>> /\ fetched'[c] # <<>>) => WritesSubmitted(c)
         /\ IssuesClose(c) => WritesSubmitted(c)
         /\ IssuesWrite(c)
                => (fetched[c] = <<>> /\ ~\E o \in CloseOps : o.call = c)]_vars

\* An eos call with rows has submitted its write, closed its sender and
\* committed the writers.
C7_Witness ==
    \E c \in Calls :
        /\ pc[c] # "idle" /\ request[c].eos /\ TabletsWithRows(request[c]) # {}
        /\ \E o \in ops : o.call = c /\ o.kind = "write"
        /\ \E o \in ops : o.call = c /\ o.kind = "commit"

\* C8: an add_chunk whose packet_seq exceeds last_sliding_packet_seq plus the
\* window size returns INVALID_ARGUMENT, leaves the sender slots as they are
\* and dispatches nothing.
C8_WindowBound ==
    [][\A c \in Calls :
         (/\ Begins(c)
          /\ ValidateRequest(request'[c], NumSenders) = "OK"
          /\ request'[c].packet_seq >
                 senders[request'[c].sender_id].last_sliding_packet_seq + WindowSize)
             => /\ response'[c] = "INVALID_ARGUMENT"
                /\ pc'[c] = "rejected"
                /\ SlotsUnchanged
                /\ NothingDispatched]_vars

\* A packet beyond the window was rejected after the window had moved.
C8_Witness ==
    \E c \in Calls :
        /\ pc[c] = "rejected" /\ branch[c] = "too_far"
        /\ response[c] = "INVALID_ARGUMENT"
        /\ senders[request[c].sender_id].last_sliding_packet_seq >= 0
        /\ request[c].packet_seq >
               senders[request[c].sender_id].last_sliding_packet_seq + WindowSize

\* Call d was admitted and has not inserted its packet_seq into the success
\* window.
InProcess(d) ==
    /\ branch[d] = "admitted"
    /\ pc[d] \in {"create_context", "close_sender", "insert_partitions", "commit",
                  "wait", "wait_secondary", "update_success", "failed"}

\* C9: an add_chunk without eos whose (sender, packet_seq) is that of a call in
\* process returns DUPLICATE_RPC_INVOCATION and dispatches nothing; when that
\* call has inserted packet_seq into the success window it returns OK.
C9_DuplicateThenOK ==
    [][\A c \in Calls :
         (/\ Begins(c)
          /\ ValidateRequest(request'[c], NumSenders) = "OK"
          /\ ~request'[c].eos)
             => \A d \in Calls \ {c} :
                  (/\ WellFormed(d)
                   /\ request[d].sender_id = request'[c].sender_id
                   /\ request[d].packet_seq = request'[c].packet_seq)
                      => /\ InProcess(d)
                             => /\ response'[c] = "DUPLICATE_RPC_INVOCATION"
                                /\ pc'[c] = "rejected"
                                /\ SlotsUnchanged
                                /\ NothingDispatched
                         /\ (branch[d] = "admitted" /\ InsertedSuccess(d))
                             => /\ response'[c] = "OK"
                                /\ pc'[c] = "rejected"
                                /\ SlotsUnchanged
                                /\ NothingDispatched]_vars

\* The same batch was sent three times: admitted, answered
\* DUPLICATE_RPC_INVOCATION while in process, answered OK after it completed.
C9_Witness ==
    \E c, d, e \in Calls :
        /\ request[c] = request[d] /\ request[d] = request[e]
        /\ ~request[c].eos
        /\ branch[c] = "admitted" /\ pc[c] = "done"
        /\ branch[d] = "already_process"
        /\ response[d] = "DUPLICATE_RPC_INVOCATION"
        /\ branch[e] = "already_success" /\ response[e] = "OK"

\* C10: the success window of every sender slot is a subset of its receive
\* window.
C10_SuccessSubsetReceive ==
    \A i \in DOMAIN senders :
        senders[i].success_sliding_window \subseteq senders[i].receive_sliding_window

\* After a packet was erased from both windows, one packet has completed and
\* another is still in process.
C10_Witness ==
    \E i \in DOMAIN senders :
        /\ senders[i].last_sliding_packet_seq >= 0
        /\ senders[i].success_sliding_window # {}
        /\ senders[i].success_sliding_window # senders[i].receive_sliding_window

\* C11: in every step and for every sender slot, last_sliding_packet_seq does
\* not decrease and grows by at most 1; when it grows, the packet
\* last_sliding_packet_seq + 1 was in both windows and is erased from both,
\* and nothing else is erased; when it does not grow, nothing is erased.
C11_LastAdvancesByPruning ==
    [][\A i \in DOMAIN senders :
         LET s == senders[i]
             t == senders'[i]
             next == s.last_sliding_packet_seq + 1
         IN /\ t.last_sliding_packet_seq \in {s.last_sliding_packet_seq, next}
            /\ t.last_sliding_packet_seq = next
                   => /\ next \in s.receive_sliding_window
                      /\ next \in s.success_sliding_window
                      /\ t.receive_sliding_window = s.receive_sliding_window \ {next}
                      /\ t.success_sliding_window = s.success_sliding_window \ {next}
            /\ t.last_sliding_packet_seq = s.last_sliding_packet_seq
                   => /\ s.receive_sliding_window \subseteq t.receive_sliding_window
                      /\ s.success_sliding_window \subseteq t.success_sliding_window]_vars

\* Two pruning iterations have erased packets 0 and 1 of a sender slot.
C11_Witness ==
    \E i \in DOMAIN senders :
        /\ senders[i].last_sliding_packet_seq = 1
        /\ 0 \notin senders[i].receive_sliding_window
        /\ 1 \notin senders[i].receive_sliding_window

\* Call c is about to build its context for a chunk whose row count matches
\* and whose tablet ids are all keys of the index map.
ScatterCase(c) ==
    /\ pc[c] = "create_context"
    /\ request[c].has_chunk
    /\ Len(request[c].tablet_ids) = request[c].num_rows
    /\ \A k \in 1..Len(request[c].tablet_ids) :
           request[c].tablet_ids[k] \in DOMAIN tablet_id_to_sorted_indexes

\* The context _create_write_context builds for call c.
ContextOf(c) == CreateWriteContext(tablet_id_to_sorted_indexes, request[c])

\* The row ordinals of positions from .. to - 1 of row_indexes.
RowsBetween(ctx, from, to) == {ctx.row_indexes[k] : k \in from..(to - 1)}

\* C12: for a batch whose tablet ids all belong to the channel, the row
\* ordinals in the sub-range of every tablet ordinal are strictly increasing,
\* and so are the rows of every write handed to a writer.
C12_StableScatter ==
    /\ \A c \in Calls :
           ScatterCase(c)
               => LET ctx == ContextOf(c)
                      n == Cardinality(DOMAIN tablet_id_to_sorted_indexes)
                  IN /\ ctx.ok
                     /\ \A i \in 0..(n - 1) :
                            \A k \in ctx.start_points[i]..(ctx.start_points[i + 1] - 2) :
                                ctx.row_indexes[k] < ctx.row_indexes[k + 1]
    /\ \A o \in ops :
           o.kind = "write"
               => \A k \in 1..(Len(o.rows) - 1) : o.rows[k] < o.rows[k + 1]

\* A writer was handed two rows of a batch in which a row of another tablet
\* lies between them.
C12_Witness ==
    \E o \in ops :
        /\ o.kind = "write"
        /\ request[o.call].tablet_ids = <<5, 2, 5>>
        /\ o.tablet_id = 5
        /\ o.rows = <<0, 2>>

Malformed(r) ==
    \/ ~r.has_sender_id
    \/ r.sender_id < 0
    \/ r.sender_id >= NumSenders
    \/ ~r.has_packet_seq

\* C14: an add_chunk with a malformed request returns INVALID_ARGUMENT and
\* changes no sender slot, no sender count, no partition id and no entry of
\* the index map, and hands nothing to a writer.
C14_MalformedRejected ==
    [][\A c \in Calls :
         (Begins(c) /\ Malformed(request'[c]))
             => /\ response'[c] = "INVALID_ARGUMENT"
                /\ pc'[c] = "rejected"
                /\ SlotsUnchanged
                /\ NothingDispatched
                /\ UNCHANGED <<partition_ids, tablet_id_to_sorted_indexes,
                               delta_writers, writer_state, sender_lock>>]_vars

\* A request without sequence number was rejected after another call had
\* been admitted.
C14_Witness ==
    \E c, d \in Calls :
        /\ branch[d] = "admitted"
        /\ d < c
        /\ branch[c] = "invalid_request"
        /\ request[c].has_sender_id /\ ~request[c].has_packet_seq
        /\ response[c] = "INVALID_ARGUMENT"

\* open has returned; Opened is the request it was called with.
OpenReturned == open_params # <<>>
Opened == open_params[1]

\* The tablet ids of the open request, and whether they are distinct.
OpenedIds == {Opened.tablets[k].tablet_id : k \in 1..Len(Opened.tablets)}
DistinctIds == Cardinality(OpenedIds) = Len(Opened.tablets)

\* C17: after an open that returned OK for distinct tablet ids there is one
\* writer per tablet of the request, with its partition, and one sender slot
\* per sender; before any add_chunk the index map takes each tablet id to the
\* number of smaller tablet ids of the request, and the count of remaining
\* senders is the number of senders.
C17_OpenBuildsChannel ==
    (OpenReturned /\ open_status = "OK" /\ DistinctIds)
        => /\ DOMAIN delta_writers = OpenedIds
           /\ \A k \in 1..Len(Opened.tablets) :
                  delta_writers[Opened.tablets[k].tablet_id].partition_id
                      = Opened.tablets[k].partition_id
           /\ DOMAIN senders = 0..(Opened.num_senders - 1)
           /\ (\A c \in Calls : pc[c] = "idle")
                  => /\ DOMAIN tablet_id_to_sorted_indexes = OpenedIds
                     /\ \A t \in OpenedIds :
                            tablet_id_to_sorted_indexes[t]
                                = Cardinality({u \in OpenedIds : u < t})
                     /\ num_remaining_senders = Opened.num_senders

\* The open of tablets 5, 2, 8 with two senders gave the index map
\* 2 -> 0, 5 -> 1, 8 -> 2.
C17_Witness ==
    /\ OpenReturned /\ open_status = "OK"
    /\ TabletIdsOf(Opened.tablets) = <<5, 2, 8>>
    /\ Opened.num_senders = 2
    /\ tablet_id_to_sorted_indexes = (2 :> 0) @@ (5 :> 1) @@ (8 :> 2)
    /\ Cardinality(DOMAIN delta_writers) = 3
    /\ num_remaining_senders = 2

\* Every AsyncDeltaWriter::open of the request succeeds.
AllWritersOpen(p) == \A k \in 1..Len(p.writer_open) : p.writer_open[k] = "OK"

\* C18 as stated: open returns OK iff the index id is known and every writer
\* open succeeds.
C18_OKIffIndexAndWriters ==
    OpenReturned
        => (open_status = "OK" <=> (Opened.index_known /\ AllWritersOpen(Opened)))

\* C18 amended: open returns OK iff the index id is known, the allocations
\* for the global dictionaries succeed and every writer open succeeds; it
\* returns INVALID_ARGUMENT for an unknown index id, MEM_ALLOC_FAILED for a
\* failed allocation, both without opening a writer, and otherwise the first
\* failure of a writer open, having opened the writers before it and no
\* later one; the index map is empty whenever open did not return OK.
C18_OpenStatus ==
    OpenReturned
        => /\ open_status = "OK"
                  <=> (/\ Opened.index_known /\ Opened.dict_alloc_ok
                       /\ AllWritersOpen(Opened))
           /\ ~Opened.index_known
                  => (open_status = "INVALID_ARGUMENT" /\ delta_writers = EmptyMap)
           /\ (Opened.index_known /\ ~Opened.dict_alloc_ok)
                  => (open_status = "MEM_ALLOC_FAILED" /\ delta_writers = EmptyMap)
           /\ (Opened.index_known /\ Opened.dict_alloc_ok /\ ~AllWritersOpen(Opened))
                  => \E k \in 1..Len(Opened.writer_open) :
                         /\ \A j \in 1..(k - 1) : Opened.writer_open[j] = "OK"
                         /\ Opened.writer_open[k] # "OK"
                         /\ open_status = Opened.writer_open[k]
                         /\ DOMAIN delta_writers
                                = {Opened.tablets[j].tablet_id : j \in 1..(k - 1)}
           /\ open_status # "OK"
                  => (tablet_id_to_sorted_indexes = EmptyMap /\ channel_state = "open_failed")

\* The first writer opened, the second and the third failed with different
\* statuses, and open returned the status of the second.
C18_Witness ==
    /\ OpenReturned
    /\ Opened.index_known /\ Opened.dict_alloc_ok
    /\ Opened.writer_open = <<"OK", "MEM_LIMIT_EXCEEDED", "INTERNAL_ERROR">>
    /\ open_status = "MEM_LIMIT_EXCEEDED"
    /\ DOMAIN delta_writers = {5}

\* The step is a call of add_segment or cancel; Control is the entry it logs.
ControlStep(op) ==
    /\ Len(control_calls') = Len(control_calls) + 1
    /\ control_calls'[Len(control_calls')].op = op
Control == control_calls'[Len(control_calls')]

\* The step leaves every member of the channel and every add_chunk call as
\* they are.
ChannelUnchanged ==
    UNCHANGED <<channel_state, delta_writers, is_replicated_storage,
                tablet_id_to_sorted_indexes, senders, sender_lock,
                num_remaining_senders, partition_ids, pc, branch, request,
                response, fetched, close_channel, context_refs, removed>>

\* C15: add_segment with a tablet id that has no writer sets INTERNAL_ERROR,
\* runs the closure once itself, hands nothing to a writer and changes no
\* state; with a tablet id that has a writer it hands the request to that
\* writer only, sets no status and does not run the closure; in both cases
\* the members of the channel are unchanged.
C15_AddSegmentRouting ==
    [][ControlStep("add_segment")
           => /\ ChannelUnchanged
              /\ UNCHANGED <<writer_queue, writer_state>>
              /\ IF Control.tablet_id \in DOMAIN delta_writers
                 THEN /\ Control.targets = {Control.tablet_id}
                      /\ ops' = ops \cup {ControlOp(Control.tablet_id, "segment")}
                      /\ Control.closure_runs = 0
                      /\ Control.status = "NONE"
                 ELSE /\ Control.targets = {}
                      /\ ops' = ops
                      /\ Control.closure_runs = 1
                      /\ Control.status = "INTERNAL_ERROR"]_vars

\* On the open channel one add_segment named a tablet without writer and
\* another named tablet 5.
C15_Witness ==
    /\ channel_state = "open"
    /\ \E k \in 1..Len(control_calls) :
           /\ control_calls[k].op = "add_segment"
           /\ control_calls[k].tablet_id = 9
           /\ control_calls[k].status = "INTERNAL_ERROR"
    /\ \E k \in 1..Len(control_calls) :
           /\ control_calls[k].op = "add_segment"
           /\ control_calls[k].targets = {5}
    /\ ControlOp(5, "segment") \in ops

\* C16: cancel() hands an abort to every writer of the channel and
\* cancel(tablet id) to the writer of that tablet only, to none when the
\* tablet has no writer, in which case nothing changes; neither changes a
\* sender slot, the sender count, the partition ids, the writers map or the
\* index map, the first time or any later time.
C16_CancelAborts ==
    [][/\ ControlStep("cancel")
           => /\ ChannelUnchanged
              /\ Control.targets = DOMAIN delta_writers
              /\ \A t \in DOMAIN delta_writers : ControlOp(t, "cancel_abort") \in ops'
              /\ ops' \ ops \subseteq
                     {ControlOp(t, "cancel_abort") : t \in DOMAIN delta_writers}
       /\ ControlStep("cancel_tablet")
           => /\ ChannelUnchanged
              /\ IF Control.tablet_id \in DOMAIN delta_writers
                 THEN /\ Control.targets = {Control.tablet_id}
                      /\ ControlOp(Control.tablet_id, "cancel_abort") \in ops'
                      /\ ops' \ ops \subseteq {ControlOp(Control.tablet_id, "cancel_abort")}
                      /\ \A t \in DOMAIN writer_state \ {Control.tablet_id} :
                             writer_state'[t] = writer_state[t]
                 ELSE /\ Control.targets = {}
                      /\ UNCHANGED <<ops, writer_queue, writer_state>>]_vars

\* On the open channel cancel(2) was called twice and cancel() after it,
\* while an add_chunk call was waiting for its writes.
C16_Witness ==
    /\ channel_state = "open"
    /\ Len(control_calls) = 3
    /\ control_calls[1].op = "cancel_tablet" /\ control_calls[1].targets = {2}
    /\ control_calls[2] = control_calls[1]
    /\ control_calls[3].op = "cancel" /\ control_calls[3].targets = {2, 5}
    /\ \E c \in Calls : pc[c] = "wait"

\* The first status other than OK of a sequence of statuses, OK if none.
FirstFailure(statuses) ==
    IF \E k \in 1..Len(statuses) : statuses[k] # "OK"
    THEN statuses[Min({k \in 1..Len(statuses) : statuses[k] # "OK"})]
    ELSE "OK"

\* The packet of call c is in the success window of its sender or was pruned
\* from it.
RecordedSuccess(c) ==
    LET s == senders[request[c].sender_id]
    IN \/ request[c].packet_seq \in s.success_sliding_window
       \/ request[c].packet_seq <= s.last_sliding_packet_seq

\* C19: the step in which the wait for the secondary replicas times out
\* leaves the response of the call as it is; the call goes on to insert its
\* packet_seq into the success window and, having closed the channel, to
\* remove the channel from the load channel; no later step changes its
\* response.
C19_TimeoutKeepsStatus ==
    /\ [][\A c \in Calls :
             /\ (~timed_out[c] /\ timed_out'[c])
                    => /\ response'[c] = response[c]
                       /\ pc'[c] = "update_success"
                       /\ close_channel'[c]
             /\ timed_out[c] => response'[c] = response[c]]_vars
    /\ [](\A c \in Calls :
             timed_out[c]
                 => /\ pc[c] \in {"update_success", "prune", "done"}
                    /\ pc[c] \in {"prune", "done"} => RecordedSuccess(c)
                    /\ pc[c] = "done" => removed >= 1)

\* The closing call of a replicated channel timed out while the secondary
\* replica was still writing, and has returned.
C19_Witness ==
    \E c \in Calls :
        /\ timed_out[c]
        /\ pc[c] = "done"
        /\ is_replicated_storage
        /\ \E t \in DOMAIN delta_writers :
               delta_writers[t].replica_state = "Secondary" /\ writer_state[t] = "kWriting"

\* Call c has submitted its writes.
Dispatched(c) ==
    pc[c] \in {"close_sender", "insert_partitions", "commit", "wait",
               "wait_secondary", "update_success", "prune", "done"}

\* C20: the response of a call that has submitted its writes carries the
\* first failure its callbacks reported, and OK when none reported a
\* failure; a failure in the response is never replaced.
C20_FirstFailureWins ==
    /\ [](\A c \in Calls : Dispatched(c) => response[c] = FirstFailure(reported[c]))
    /\ [][\A c \in Calls :
             (Dispatched(c) /\ response[c] # "OK") => response'[c] = response[c]]_vars

\* The two writes of one batch failed with different statuses, a commit
\* succeeded after them, and the response carries the first failure.
C20_Witness ==
    \E c \in Calls :
        /\ Len(reported[c]) >= 3
        /\ reported[c][1] = "MEM_LIMIT_EXCEEDED"
        /\ reported[c][2] = "INTERNAL_ERROR"
        /\ reported[c][3] = "OK"
        /\ response[c] = "MEM_LIMIT_EXCEEDED"

\* The slot of the sender of the request call c begins with, before the step.
SlotBefore(c) == senders[request'[c].sender_id]

\* C21: an add_chunk whose packet_seq is in the receive window of its sender
\* returns DUPLICATE_RPC_INVOCATION whenever the packet_seq is not in the
\* success window or the request has eos; it hands nothing to a writer,
\* changes no sender slot and does not decrement the sender count, and a call
\* that returned so never runs _close_sender.
C21_DuplicateInProcess ==
    /\ [][\A c \in Calls :
             (/\ Begins(c)
              /\ branch'[c] # "invalid_request"
              /\ request'[c].packet_seq \in SlotBefore(c).receive_sliding_window
              /\ \/ request'[c].packet_seq \notin SlotBefore(c).success_sliding_window
                 \/ request'[c].eos)
                 => /\ response'[c] = "DUPLICATE_RPC_INVOCATION"
                    /\ pc'[c] = "rejected"
                    /\ NothingDispatched
                    /\ SlotsUnchanged]_vars
    /\ [](\A c \in Calls : pc[c] = "rejected" => fetched[c] = <<>>)
    /\ [][\A c \in Calls : pc[c] = "rejected" => pc'[c] = "rejected"]_vars

\* An eos batch ran to its end and decremented the sender count; the same
\* request, sent again while its packet_seq is in both windows, was answered
\* DUPLICATE_RPC_INVOCATION and decremented nothing.
C21_Witness ==
    \E c, d \in Calls :
        /\ c # d
        /\ request[c] = request[d]
        /\ request[c].eos
        /\ pc[d] = "done" /\ branch[d] = "admitted" /\ fetched[d] # <<>>
        /\ d < c
        /\ request[c].packet_seq \in
               senders[request[c].sender_id].success_sliding_window
        /\ pc[c] = "rejected" /\ branch[c] = "already_process"
        /\ response[c] = "DUPLICATE_RPC_INVOCATION"
        /\ fetched[c] = <<>>

\* C22: an add_chunk whose packet_seq is not in the receive window and is at
\* most last_sliding_packet_seq of its sender returns OK, hands nothing to a
\* writer, leaves every sender slot and the sender count as they are, also
\* with eos, and never runs _close_sender.
C22_BeforeWindowReplay ==
    /\ [][\A c \in Calls :
             (/\ Begins(c)
              /\ branch'[c] # "invalid_request"
              /\ request'[c].packet_seq \notin SlotBefore(c).receive_sliding_window
              /\ request'[c].packet_seq <= SlotBefore(c).last_sliding_packet_seq)
                 => /\ response'[c] = "OK"
                    /\ pc'[c] = "rejected"
                    /\ NothingDispatched
                    /\ SlotsUnchanged
                    /\ partition_ids' = partition_ids]_vars
    /\ [](\A c \in Calls : branch[c] = "before_window" =>
             pc[c] = "rejected" /\ fetched[c] = <<>>)

\* An eos request whose packet_seq had been pruned from the windows was
\* answered OK.
C22_Witness ==
    \E c \in Calls :
        /\ branch[c] = "before_window"
        /\ request[c].eos
        /\ request[c].packet_seq <= senders[request[c].sender_id].last_sliding_packet_seq
        /\ request[c].packet_seq \notin
               senders[request[c].sender_id].receive_sliding_window
        /\ response[c] = "OK"
        /\ pc[c] = "rejected"

\* A write or a commit that call c handed to a writer has not run its callback.
Pending(c) ==
    \E t \in DOMAIN writer_queue :
        \E i \in 1..Len(writer_queue[t]) : writer_queue[t][i].call = c

\* The writes and commits call c handed to the writers.
CallbacksOf(c) == {o \in ops : o.call = c /\ o.kind \in {"write", "commit"}}

\* Call c is past count_down_latch.wait() (line 249).
PastWait(c) == pc[c] \in {"wait_secondary", "update_success", "prune", "done"}

\* C23: a call is past its wait, and so inserts its packet_seq into the
\* success window and returns, only when every write and every commit it
\* handed to a writer has run its callback; the packet_seq of an admitted call
\* with a pending write or commit is not in the success window.
C23_SuccessAfterCallbacks ==
    \A c \in Calls :
        /\ PastWait(c) =>
               /\ ~Pending(c)
               /\ context_refs[c] = 0
               /\ Len(reported[c]) = Cardinality(CallbacksOf(c))
        /\ (branch[c] = "admitted" /\ Pending(c)) =>
               request[c].packet_seq \notin
                   senders[request[c].sender_id].success_sliding_window

\* The call that closed the channel wrote to a tablet and committed it, both
\* callbacks ran, and the call inserted its packet_seq and returned.
C23_Witness ==
    \E c \in Calls :
        /\ pc[c] = "done"
        /\ close_channel[c]
        /\ \E o \in CallbacksOf(c) : o.kind = "write"
        /\ \E o \in CallbacksOf(c) : o.kind = "commit"
        /\ Len(reported[c]) = Cardinality(CallbacksOf(c))
        /\ request[c].packet_seq \in
               senders[request[c].sender_id].success_sliding_window

\* C24: when every writer eventually runs the callback of each write and
\* commit it was given, every call that waits on its latch eventually gets
\* past the wait; so does the call that handed no write and no commit to a
\* writer, whose latch is counted down when it drops its own reference.
C24_WaitReleased ==
    \A c \in Calls : (pc[c] = "wait") ~> PastWait(c)

\* An eos request without chunk, from a sender that was not the last to close,
\* handed nothing to a writer and got past its wait.
C24_Witness ==
    \E c \in Calls :
        /\ PastWait(c)
        /\ request[c].eos /\ ~request[c].has_chunk
        /\ fetched[c] # <<>> /\ ~close_channel[c]
        /\ CallbacksOf(c) = {}
        /\ \E d \in Calls : d # c /\ PastWait(d) /\ CallbacksOf(d) # {}

\* C25 as stated: the loop of lines 293-302 always ends.  The call in the loop
\* holds the lock of the slot, so nothing but its own iterations changes the
\* slot, and an iteration whose test of lines 296-297 fails changes nothing:
\* the loop ends if and only if, whenever its condition holds, that test
\* holds too.
C25_PruningTerminates ==
    \A c \in Calls :
        pc[c] = "prune" =>
            /\ sender_lock[request[c].sender_id] = c
            /\ \/ ~PruneWanted(senders[request[c].sender_id])
               \/ PruneCan(senders[request[c].sender_id])

\* The step in which call c leaves the loop of lines 293-302 and releases the
\* lock of its slot.
EndsUpdate(c) == pc[c] = "prune" /\ pc'[c] = "done"

\* last_sliding_packet_seq + 1 is the least packet of both windows of slot s.
NextIsLeastOfBoth(s) ==
    /\ s.last_sliding_packet_seq + 1 \in s.success_sliding_window
    /\ s.last_sliding_packet_seq + 1 \in s.receive_sliding_window
    /\ \A q \in s.success_sliding_window \cup s.receive_sliding_window :
           q >= s.last_sliding_packet_seq + 1

\* C26 as stated: when a call ends its completion update, it is not the case
\* that last_sliding_packet_seq + 1 is the least packet of both windows of its
\* sender.
C26_PrunedToFixpoint ==
    [][\A c \in Calls :
         EndsUpdate(c) => ~NextIsLeastOfBoth(senders'[request[c].sender_id])]_vars

\* C26 amended: when a call ends its completion update the success window of
\* its sender holds at most window size / 2 packets, and so does the success
\* window of every slot whose lock is free.
C26_PrunedToHalfWindow ==
    /\ [][\A c \in Calls :
             EndsUpdate(c) =>
                 Cardinality(senders'[request[c].sender_id].success_sliding_window)
                     <= WindowSize \div 2]_vars
    /\ [](\A i \in DOMAIN senders :
             sender_lock[i] = NoCall =>
                 Cardinality(senders[i].success_sliding_window) <= WindowSize \div 2)

\* Two calls ended their completion updates, the second after erasing a
\* packet, and last_sliding_packet_seq + 1 is still the least packet of both
\* windows.
C26_Witness ==
    \E c, d \in Calls :
        /\ c # d
        /\ pc[c] = "done" /\ branch[c] = "admitted"
        /\ pc[d] = "done" /\ branch[d] = "admitted"
        /\ request[c].sender_id = request[d].sender_id
        /\ sender_lock[request[c].sender_id] = NoCall
        /\ senders[request[c].sender_id].last_sliding_packet_seq >= 0
        /\ NextIsLeastOfBoth(senders[request[c].sender_id])

\* The step is a step of call c: c moves to another place of add_chunk, or no
\* call does and c, in the loop of lines 293-302, erases from its slot.
StepOf(c) ==
    \/ pc'[c] # pc[c]
    \/ /\ pc' = pc
       /\ pc[c] = "prune"
       /\ senders'[request[c].sender_id] # senders[request[c].sender_id]

\* What lines 126-158 answer for (seq, eos) on the windows of slot s alone:
\* the status of a return, or "admitted".
VerdictOn(s, seq, eos) ==
    IF seq \in s.receive_sliding_window
    THEN IF seq \notin s.success_sliding_window \/ eos
         THEN "DUPLICATE_RPC_INVOCATION" ELSE "OK"
    ELSE IF seq <= s.last_sliding_packet_seq THEN "OK"
         ELSE IF seq > s.last_sliding_packet_seq + WindowSize THEN "INVALID_ARGUMENT"
         ELSE "admitted"

\* C27: a step of an add_chunk call of sender i changes no slot and no lock of
\* another sender, a slot changes only in a step of a call of its own sender,
\* and what the sliding window answers a call of sender i is determined by
\* the slot of sender i and the request.
C27_OwnSlotOnly ==
    /\ [][\A c \in Calls : StepOf(c) =>
             \A j \in DOMAIN senders :
                 j # request'[c].sender_id =>
                     senders'[j] = senders[j] /\ sender_lock'[j] = sender_lock[j]]_vars
    /\ [][\A j \in DOMAIN senders :
             senders'[j] # senders[j] =>
                 \E c \in Calls : StepOf(c) /\ request'[c].sender_id = j]_vars
    /\ [][\A c \in Calls :
             (Begins(c) /\ branch'[c] # "invalid_request") =>
                 LET v == VerdictOn(SlotBefore(c), request'[c].packet_seq,
                                    request'[c].eos)
                 IN IF v = "admitted"
                    THEN /\ pc'[c] = "create_context"
                         /\ senders'[request'[c].sender_id].receive_sliding_window =
                                SlotBefore(c).receive_sliding_window
                                    \cup {request'[c].packet_seq}
                    ELSE /\ pc'[c] = "rejected"
                         /\ response'[c] = v
                         /\ senders' = senders]_vars

\* Two senders sent the same packet_seq: the call of the one ran to its end,
\* and the call of the other was admitted while that packet_seq was in both
\* windows of the first.
C27_Witness ==
    \E c, d \in Calls :
        /\ request[c].sender_id # request[d].sender_id
        /\ request[c].packet_seq = request[d].packet_seq
        /\ branch[c] = "admitted" /\ pc[c] = "done"
        /\ request[c].packet_seq \in
               senders[request[c].sender_id].success_sliding_window
        /\ c < d
        /\ branch[d] = "admitted" /\ pc[d] = "create_context"
        /\ senders[request[d].sender_id].success_sliding_window = {}

\* C28 as stated: once the channel is open no step changes _delta_writers or
\* _tablet_id_to_sorted_indexes, and the index map is the one open built from
\* the tablets of its request.
C28_MapsFixedAfterOpen ==
    /\ [][channel_state = "open" =>
             /\ delta_writers' = delta_writers
             /\ tablet_id_to_sorted_indexes' = tablet_id_to_sorted_indexes]_vars
    /\ [](channel_state = "open" =>
             tablet_id_to_sorted_indexes =
                 SortedIndexes(TabletIdsOf(open_params[1].tablets)))

\* The step in which call c runs _create_write_context and the dispatch loop
\* (lines 162-208).
Dispatches(c) == pc[c] = "create_context" /\ pc'[c] # "create_context"

\* The tablet ids of the rows of r that have no writer in the channel.
ForeignIds(r) == TabletsWithRows(r) \ DOMAIN delta_writers

\* The ordinals of the rows of r assigned to tablet t.
RowsOfTablet(r, t) == {i - 1 : i \in {k \in 1..Len(r.tablet_ids) : r.tablet_ids[k] = t}}

\* The writes the step hands to writers for call c.
NewWrites(c) == {o \in ops' \ ops : o.call = c /\ o.kind = "write"}

\* C29 as stated: a batch with a row of a tablet that is not in the channel
\* fails with INTERNAL_ERROR and hands no write to a writer; a batch whose
\* number of tablet ids differs from its number of rows fails with
\* INVALID_ARGUMENT and hands no write to a writer.
C29_RoutingErrors ==
    /\ [][\A c \in Calls :
             (/\ Dispatches(c)
              /\ request[c].has_chunk
              /\ Len(request[c].tablet_ids) = request[c].num_rows
              /\ ForeignIds(request[c]) # {})
                 => /\ pc'[c] = "failed"
                    /\ response'[c] = "INTERNAL_ERROR"
                    /\ NothingDispatched]_vars
    /\ [][\A c \in Calls :
             (/\ Dispatches(c)
              /\ request[c].has_chunk
              /\ Len(request[c].tablet_ids) # request[c].num_rows)
                 => /\ pc'[c] = "failed"
                    /\ response'[c] = "INVALID_ARGUMENT"
                    /\ NothingDispatched]_vars

\* C30 as stated: for every admitted batch for which a context was built, the
\* dispatch loop reads its arrays within bounds and finds a writer for every
\* tablet id it looks up; it hands exactly one write to the writer of every
\* tablet of the channel that has a row in the batch and none to any other,
\* each with exactly the rows assigned to that writer's tablet; an eos request
\* without chunk hands no write.
C30_OneWritePerTablet ==
    [][\A c \in Calls :
         (Dispatches(c) /\ pc'[c] # "failed")
             => /\ Dispatch(ContextOf(c), request[c], delta_writers).defined
                /\ ~crashed'
                /\ {o.tablet_id : o \in NewWrites(c)} =
                       TabletsWithRows(request[c]) \cap DOMAIN delta_writers
                /\ \A o \in NewWrites(c) :
                       /\ Len(o.rows) = Cardinality(RowsOfTablet(request[c], o.tablet_id))
                       /\ {o.rows[k] : k \in 1..Len(o.rows)} =
                              RowsOfTablet(request[c], o.tablet_id)
                /\ \A o, x \in NewWrites(c) : o.tablet_id = x.tablet_id => o = x
                /\ \A t \in DOMAIN writer_queue :
                       Len(writer_queue'[t]) =
                           Len(writer_queue[t])
                               + (IF t \in TabletsWithRows(request[c]) THEN 1 ELSE 0)]_vars

\* The writers of the channel that are secondary replicas.
Secondaries == {t \in DOMAIN delta_writers : delta_writers[t].replica_state = "Secondary"}

\* C31: the close sequence hands commit and abort only to writers that are
\* not secondary replicas; a secondary replica gets neither, whether or not
\* its partition id is among those of the eos batches.
C31_SecondaryLeftAlone ==
    \A o \in ops :
        o.kind \in {"commit", "abort"} => o.tablet_id \notin Secondaries

\* The close sequence ran with the partition of a secondary replica among the
\* partition ids: the primary was committed or aborted, the secondary got
\* nothing.
C31_Witness ==
    \E c \in Calls :
        /\ close_channel[c] /\ pc[c] = "done"
        /\ \E t \in Secondaries : delta_writers[t].partition_id \in partition_ids
        /\ \E o \in CloseOps : o.call = c /\ o.tablet_id \notin Secondaries
        /\ \A o \in ops : o.tablet_id \in Secondaries => o.kind = "write"

\* Every secondary replica is in a state that lines 260-261 take as final.
SecondariesFinal ==
    \A t \in Secondaries : writer_state[t] \in {"kCommitted", "kAborted", "kUninitialized"}

\* C32: a call is in the wait for the secondary replicas only if it closed
\* the channel and storage is replicated; it leaves the wait only when every
\* secondary replica is in a final state or the timeout has passed; and so
\* the closing call of a replicated channel inserts its packet_seq and
\* removes the channel only after that.
C32_ClosingCallWaitsForSecondaries ==
    /\ [](\A c \in Calls :
             pc[c] = "wait_secondary" => close_channel[c] /\ is_replicated_storage)
    /\ [][\A c \in Calls :
             (pc[c] = "wait_secondary" /\ pc'[c] # "wait_secondary")
                 => SecondariesFinal \/ timed_out'[c]]_vars
    /\ [][\A c \in Calls :
             (pc'[c] # pc[c] /\ pc'[c] = "update_success"
                  /\ close_channel[c] /\ is_replicated_storage)
                 => pc[c] = "wait_secondary"]_vars
    /\ [](\A c \in Calls :
             (InsertedSuccess(c) /\ close_channel[c] /\ is_replicated_storage)
                 => SecondariesFinal \/ timed_out[c])
    /\ [](\A c \in Calls : timed_out[c] => close_channel[c] /\ is_replicated_storage)

\* The closing call of a replicated channel waited until the secondary replica
\* was committed, without timeout, and then removed the channel.
C32_Witness ==
    \E c \in Calls :
        /\ is_replicated_storage /\ close_channel[c]
        /\ pc[c] = "done" /\ removed = 1
        /\ ~timed_out[c]
        /\ Secondaries # {}
        /\ \A t \in Secondaries : writer_state[t] = "kCommitted"

\* The step in which a call runs remove_tablets_channel and persists the
\* transactions (lines 305-319).
Notifies(c) == EndsUpdate(c) /\ close_channel[c]

\* C33: remove_tablets_channel and the persisting of the transactions run at
\* most once in the life of a channel, in the call whose _close_sender read 1
\* and returned 0, after every write and commit of that call has run its
\* callback and after the call inserted its packet_seq into the success
\* window.
C33_NotifiedOnce ==
    /\ [](removed <= 1)
    /\ [](Cardinality({c \in Calls : close_channel[c]}) <= 1)
    /\ [][removed' # removed =>
             /\ removed' = removed + 1
             /\ \E c \in Calls :
                    /\ Notifies(c)
                    /\ fetched[c] = <<1>>
                    /\ ~Pending(c)
                    /\ Len(reported[c]) = Cardinality(CallbacksOf(c))
                    /\ \/ request[c].packet_seq \in
                              senders[request[c].sender_id].success_sliding_window
                       \/ request[c].packet_seq <=
                              senders[request[c].sender_id].last_sliding_packet_seq]_vars
    /\ [][\A c \in Calls : Notifies(c) => removed' = removed + 1]_vars

\* The channel was removed by the call that read 1, and another eos call that
\* read a count that was not 1 ran to its end without removing it.
C33_Witness ==
    \E c, d \in Calls :
        /\ c # d
        /\ removed = 1
        /\ pc[c] = "done" /\ close_channel[c] /\ fetched[c] = <<1>>
        /\ CallbacksOf(c) # {}
        /\ pc[d] = "done" /\ fetched[d] # <<>> /\ fetched[d] # <<1>>
        /\ ~close_channel[d]

\* C34: in every sender slot every packet of the receive window is greater
\* than last_sliding_packet_seq and at most last_sliding_packet_seq plus the
\* window size, so neither window ever holds more packets than the window
\* size.
C34_WindowWithinBounds ==
    \A i \in DOMAIN senders :
        /\ \A q \in senders[i].receive_sliding_window :
               /\ q > senders[i].last_sliding_packet_seq
               /\ q <= senders[i].last_sliding_packet_seq + WindowSize
        /\ Cardinality(senders[i].receive_sliding_window) <= WindowSize
        /\ Cardinality(senders[i].success_sliding_window) <= WindowSize

\* After a packet was pruned the receive window is full: it holds window size
\* packets, the greatest of them last_sliding_packet_seq plus the window size.
C34_Witness ==
    \E i \in DOMAIN senders :
        /\ senders[i].last_sliding_packet_seq >= 0
        /\ Cardinality(senders[i].receive_sliding_window) = WindowSize
        /\ senders[i].last_sliding_packet_seq + WindowSize
               \in senders[i].receive_sliding_window
        /\ senders[i].last_sliding_packet_seq + 1
               \in senders[i].receive_sliding_window

\* Call c was admitted and has returned.
Returned(c) == branch[c] = "admitted" /\ pc[c] \in {"failed", "done"}

\* The packet_seq of call c has been in the success window of its sender: it
\* is there, or was pruned from both windows.
Completed(c) ==
    \/ request[c].packet_seq \in senders[request[c].sender_id].success_sliding_window
    \/ request[c].packet_seq <= senders[request[c].sender_id].last_sliding_packet_seq

\* C35 as stated: every packet_seq inserted into a receive window gets into
\* the success window.  Only the call that inserted it into the receive window
\* inserts it into the success window (no other call with that packet_seq is
\* admitted while it is in the receive window), so this requires that a call
\* that was admitted and has returned, with or without a context, has done so.
C35_ReceivedGetsCompleted ==
    \A c \in Calls : Returned(c) => Completed(c)

\* C36 as stated: a packet_seq is inserted into the success window only when
\* the status of its batch is OK, and the same request sent again after a
\* failed batch is not answered OK.
C36_SuccessOnlyWhenOK ==
    /\ \A c \in Calls : InsertedSuccess(c) => response[c] = "OK"
    /\ \A c, d \in Calls :
           (/\ c # d
            /\ request[c] = request[d]
            /\ branch[d] = "admitted" /\ pc[d] = "done" /\ response[d] # "OK"
            /\ pc[c] = "rejected")
               => response[c] # "OK"

\* C37 as stated: once the close sequence has handed commit or abort to a
\* writer, no add_chunk call hands a write to that writer.
C37_NoWriteAfterClose ==
    [][\A o \in ops' \ ops :
         o.kind = "write" =>
             ~\E x \in CloseOps : x.tablet_id = o.tablet_id]_vars

\* Call d is between its admission by the sliding window and its return.
InFlight(d) == pc[d] \notin {"idle", "rejected", "failed", "done"}

\* C38 as stated: when the closing call removes the channel from the load
\* channel, no other add_chunk call is between its admission and its return.
C38_QuiescentAtNotify ==
    [][\A c \in Calls :
         Notifies(c) => \A d \in Calls \ {c} : ~InFlight(d)]_vars

\* C38 amended: when the closing call removes the channel, the sender count
\* is at most zero, every call that decremented it has handed all writes of
\* its batch to the writers, and every write and commit of the closing call
\* has run its callback.
C38_CountedAtNotify ==
    [][\A c \in Calls :
         Notifies(c) =>
             /\ num_remaining_senders <= 0
             /\ ~Pending(c)
             /\ Len(reported[c]) = Cardinality(CallbacksOf(c))
             /\ \A d \in Decremented :
                    /\ pc[d] \notin {"idle", "create_context", "close_sender"}
                    /\ WritesSubmitted(d)]_vars

\* The closing call removed the channel and returned while the eos call of
\* another sender, which has a write, still waits on its latch.
C38_Witness ==
    \E c, d \in Calls :
        /\ c # d
        /\ pc[c] = "done" /\ close_channel[c] /\ removed = 1
        /\ request[d].eos /\ request[d].sender_id # request[c].sender_id
        /\ fetched[d] # <<>>
        /\ CallbacksOf(d) # {}
        /\ pc[d] = "wait"

\* The places of add_chunk.
Places ==
    {"idle", "create_context", "close_sender", "insert_partitions", "commit",
     "wait", "wait_secondary", "update_success", "prune"}

\* The slots whose lock call c holds.
SlotsLockedBy(c) == {i \in DOMAIN sender_lock : sender_lock[i] = c}

\* Call c waits for nothing that a waiting call holds: it waits for no lock,
\* or for the lock of its slot, whose holder is another call inside its
\* completion update, where no lock is taken and no latch is waited on.
CanProceed(c) ==
    (pc[c] = "update_success" /\ sender_lock[request[c].sender_id] # NoCall) =>
        LET d == sender_lock[request[c].sender_id]
        IN  /\ d # c
            /\ pc[d] = "prune"
            /\ SlotsLockedBy(d) = {request[c].sender_id}

\* C39: no statement of add_chunk runs under both a sender-slot lock and
\* _partitions_ids_lock; a call holds the lock of at most one slot, its own,
\* and only in its completion update; the steps that hand writes to writers,
\* and the wait on the latch, hold no lock; and with add_segment and cancel
\* running at any moment a call waits for a lock only while its holder is in
\* the completion update, which waits for nothing.
C39_LockDiscipline ==
    /\ [](\A place \in Places : ~(PartitionsLockAt(place) /\ SenderLockAt(place)))
    /\ [](~PartitionsLockAt("create_context") /\ ~SenderLockAt("create_context")
             /\ ~PartitionsLockAt("wait") /\ ~SenderLockAt("wait"))
    /\ [](\A c \in Calls :
             /\ Cardinality(SlotsLockedBy(c)) <= 1
             /\ SlotsLockedBy(c) # {} =>
                    /\ SlotsLockedBy(c) = {request[c].sender_id}
                    /\ pc[c] = "prune"
             /\ pc[c] \in Places => (SenderLockAt(pc[c]) \/ SlotsLockedBy(c) = {}))
    /\ [][\A c \in Calls :
             (NewWrites(c) # {} \/ pc[c] = "wait" \/ PartitionsLockAt(pc[c]))
                 => SlotsLockedBy(c) = {}]_vars
    /\ [](\A c \in Calls : CanProceed(c))

\* While add_segment and cancel were called, a call waits for the lock of its
\* slot, which another call holds in its completion update.
C39_Witness ==
    \E c, d \in Calls :
        /\ c # d
        /\ pc[c] = "update_success"
        /\ sender_lock[request[c].sender_id] = d
        /\ pc[d] = "prune"
        /\ \E k \in 1..Len(control_calls) : control_calls[k].op = "cancel_tablet"
        /\ \E k \in 1..Len(control_calls) : control_calls[k].op = "add_segment"

====
